---- MODULE Spec2Model ----
(***************************************************************************)
(* A model of the High-Command MCP server's core:                          *)
(*   - highcommand/tool_registry.py : ToolParameter, ToolDefinition        *)
(*     (validate_arguments), ToolRegistry (register, get, list_all,        *)
(*     validate_and_get, clear);                                           *)
(*   - highcommand/tools.py : HighCommandTools._run_tool and the _fetch    *)
(*     closures of the seven tools;                                        *)
(*   - highcommand/api_client.py : HighCommandAPIClient;                   *)
(*   - highcommand/server.py : list_tools and call_tool.                   *)
(*                                                                         *)
(* Python values are records [type, repr]: type is the value's Python      *)
(* class name (type(v).__name__), repr its printed form.  An Optional[T]   *)
(* is a sequence: <<>> is None and <<x>> is the value x.  A dict is a      *)
(* function whose DOMAIN is the set of its keys.  Error messages are the   *)
(* strings the f-strings of the source build.                              *)
(***************************************************************************)
EXTENDS Integers, Sequences, FiniteSets, TLC

VARIABLES
    \* ---- ToolDefinition.validate_arguments applied to drawn inputs
    vtool,        \* the ToolDefinition validate_arguments is called on
    varguments,   \* the arguments dict passed to it
    vresult,      \* <<>> before the call, <<outcome>> after it
    schemas,      \* what the calls of to_input_schema on vtool returned, in order
    \* ---- a ToolRegistry and the calls made on it
    tools,        \* ToolRegistry._tools: insertion-ordered dict, as the
                  \* sequence of its values (keys are the values' names)
    ret,          \* the last call on the registry and what it returned/raised
    firstAttempt, \* history: per name, the first definition register() was
                  \* called with since construction or the last clear()
    \* ---- one invocation of HighCommandTools._run_tool
    environ,      \* os.environ: ENVIRONMENT and HIGH_COMMAND_API_BASE_URL
    entry,        \* the method the caller invoked: "_run_tool" or a tool method
    pc,           \* "init": not called; "awaiting": suspended in
                  \* `await func()`; "done": returned its response;
                  \* "raised": an exception left _run_tool
    suspended_in, \* where `await func()` is suspended: "get" in the GET of
                  \* the operation, "aclose" in `await self._client.aclose()`
                  \* of __aexit__; "" before the call, "done" after its end
    pending,      \* <<>>, or <<what the operation returned or raised>> while
                  \* __aexit__ runs: it leaves the `async with` block once
                  \* aclose() has finished
    func,         \* the callable passed to _run_tool
    include_metrics,
    clock,        \* the last reading of time.perf_counter(), in ticks
    start_time,   \* _run_tool's start_time
    outcome,      \* what `await func()` did: <<>> while it has not finished
    response,     \* <<>>, or <<the dict _run_tool returned>>
    propagated,   \* the exception that left _run_tool (Returns when none)
    calls,        \* how many times func was called
    client,       \* the HighCommandAPIClient of _fetch: its _client attribute
                  \* and whether that httpx client was closed
    opened,       \* httpx.AsyncClient objects constructed
    closed,       \* aclose() calls
    requests,     \* the endpoints a GET was issued for, in order
    \* ---- server.py: one call of call_tool, and the calls of list_tools
    call_name,      \* call_tool's `name`
    call_arguments, \* call_tool's `arguments`
    call_pc,        \* "init": not called; "awaiting": suspended in the tool
                    \* method; "returned"; "raised": an exception left it
    call_result,    \* <<>>, or <<the list call_tool returned>>
    call_raised,    \* the exception that left call_tool (Returns when none)
    listed,         \* <<>>, or <<what the last list_tools() returned>>
    \* ---- one HighCommandAPIClient used directly by a caller
    ctx,          \* "none": no object; "new": constructed, context never
                  \* entered; "open": inside `async with`; "exited": left it
    lastOp,       \* the last operation that ended on it and what it did
    aexit,        \* the last call of __aexit__: "" none yet, "aclose" suspended
                  \* in `await self._client.aclose()`, "returned", "cancelled"
    inflight,     \* the operations suspended in their GET, in order of call
    \* ---- _handle_response applied to drawn responses
    hresponse,    \* the httpx response passed to it
    hresult,      \* <<>> before the call, <<outcome>> after it
    \* ---- the api_client module from its import on, and one client built later
    BASE_URL,     \* the class attribute HighCommandAPIClient.BASE_URL
    built_env,    \* <<>>, or <<os.environ as it was when the client was built>>
    conn_urls,    \* the base_url of each httpx.AsyncClient constructed, in order
    sent_to,      \* the base URL each GET went to, in order
    \* ---- tool invocations running as interleaved tasks
    task,         \* per task: where it is, what it asked for, what it got
    conns         \* every HighCommandAPIClient entered, in order of entry:
                  \* who owns it, who sent on it, who closed it

validateVars == <<vtool, varguments, vresult, schemas>>
registryVars == <<tools, ret, firstAttempt>>
wrapperVars == <<environ, entry, pc, suspended_in, pending, func, include_metrics, clock,
                 start_time, outcome, response, propagated, calls, client, opened,
                 closed, requests>>
serverVars == <<call_name, call_arguments, call_pc, call_result, call_raised, listed>>
clientVars == <<ctx, lastOp, aexit, inflight>>
classifyVars == <<hresponse, hresult>>
guardVars == <<BASE_URL, built_env, conn_urls, sent_to>>
taskVars == <<task, conns>>
frontVars == <<serverVars, clientVars, classifyVars, guardVars, taskVars>>
vars == <<vtool, varguments, vresult, schemas, tools, ret, firstAttempt,
          environ, entry, pc, suspended_in, pending, func, include_metrics, clock,
          start_time, outcome, response, propagated, calls, client, opened, closed,
          requests,
          call_name, call_arguments, call_pc, call_result, call_raised, listed,
          ctx, lastOp, aexit, inflight, hresponse, hresult,
          BASE_URL, built_env, conn_urls, sent_to, task, conns>>

(***************************************************************************)
(* Bounds of the model.                                                    *)
(***************************************************************************)
\* Longest parameter list of a drawn ToolDefinition.
MaxParams == 2
\* Largest reading of time.perf_counter(), in ticks.
MaxClock == 2
\* Most httpx clients one HighCommandAPIClient object opens, and most GETs
\* issued through it.
MaxOpens == 2
MaxRequests == 2
\* Largest status code of a classified response.
MaxStatus == 600
\* Most calls of to_input_schema on one definition.
MaxSchemaCalls == 2

(***************************************************************************)
(* Strings.                                                                *)
(***************************************************************************)
\* Python's `sub in s` on strings.
Contains(s, sub) ==
    \E i \in 1..(Len(s) - Len(sub) + 1) : SubSeq(s, i, i + Len(sub) - 1) = sub

(***************************************************************************)
(* Python values and isinstance.                                           *)
(***************************************************************************)
PyInt   == [type |-> "int",      repr |-> "42"]
PyZero  == [type |-> "int",      repr |-> "0"]
PyStr   == [type |-> "str",      repr |-> "abc"]
PyTrue  == [type |-> "bool",     repr |-> "True"]
PyFalse == [type |-> "bool",     repr |-> "False"]
PyNone  == [type |-> "NoneType", repr |-> "None"]
PyFloat == [type |-> "float",    repr |-> "1.5"]
PyDict  == [type |-> "dict",     repr |-> "{'id': 1}"]
\* The str object s.
PyString(s) == [type |-> "str", repr |-> s]

\* The classes a value's class inherits from, itself included: in Python
\* bool is a subclass of int.
Bases(t) ==
    CASE t = "bool" -> {"bool", "int", "object"}
      [] OTHER      -> {t, "object"}

\* isinstance(value, cls)
IsInstance(value, cls) == cls \in Bases(value.type)

(***************************************************************************)
(* Outcomes of a call: it returns, or raises an exception of class exc     *)
(* whose str() is msg.                                                     *)
(***************************************************************************)
Returns == [exc |-> "", msg |-> ""]
Raises(exc, msg) == [exc |-> exc, msg |-> msg]

(***************************************************************************)
(* ToolParameter and ToolDefinition (tool_registry.py).                    *)
(***************************************************************************)
ParamNames == {"planet_index", "limit"}
\* "integer", "string" and "boolean" are the types validate_arguments
\* checks; "number" stands for any other declared type.
ParamTypes == {"integer", "string", "boolean", "number"}
Descriptions == {"The index of the planet"}

ToolParameter ==
    [name : ParamNames, type : ParamTypes, description : Descriptions,
     required : BOOLEAN]

RECURSIVE SeqsUpTo(_, _)
\* The sequences over S of length at most n.
SeqsUpTo(S, n) ==
    IF n = 0 THEN {<<>>}
    ELSE LET shorter == SeqsUpTo(S, n - 1)
         IN  shorter \cup {Append(q, x) : q \in {r \in shorter : Len(r) = n - 1}, x \in S}

\* The keys an arguments dict may hold: the parameter names and one key no
\* tool declares.
UndeclaredKey == "verbose"
ArgKeys == ParamNames \cup {UndeclaredKey}
ArgValues == {PyInt, PyStr, PyTrue, PyFalse, PyNone}
UndeclaredValues == {PyTrue, PyStr}

\* The arguments dicts validate_arguments is applied to.
Arguments ==
    UNION {
        { f \in [K -> ArgValues \cup UndeclaredValues] :
            /\ \A k \in K \cap ParamNames : f[k] \in ArgValues
            /\ UndeclaredKey \in K => f[UndeclaredKey] \in UndeclaredValues }
        : K \in SUBSET ArgKeys }

\* A validate_arguments that also checks a parameter declared "number"
\* against int and float.
ValidateParameterNumberChecked(param, arguments) ==
    IF param.required /\ param.name \notin DOMAIN arguments
    THEN Raises("ValueError", "Missing required parameter: " \o param.name)
    ELSE IF param.name \in DOMAIN arguments
    THEN LET arg_value == arguments[param.name]
             Mismatch(kind) ==
                 Raises("ValueError",
                        "Parameter '" \o param.name \o "' must be " \o kind
                            \o ", got " \o arg_value.type)
         IN  IF param.type = "integer"
             THEN IF ~IsInstance(arg_value, "int") THEN Mismatch("integer") ELSE Returns
             ELSE IF param.type = "string"
             THEN IF ~IsInstance(arg_value, "str") THEN Mismatch("string") ELSE Returns
             ELSE IF param.type = "boolean"
             THEN IF ~IsInstance(arg_value, "bool") THEN Mismatch("boolean") ELSE Returns
             ELSE IF param.type = "number"
             THEN IF ~IsInstance(arg_value, "int") /\ ~IsInstance(arg_value, "float")
                  THEN Mismatch("number") ELSE Returns
             ELSE Returns
    ELSE Returns

\* One iteration of the loop of validate_arguments: the checks made for
\* one parameter, in the order the source makes them.
ValidateParameter(param, arguments) ==
    IF param.required /\ param.name \notin DOMAIN arguments
    THEN Raises("ValueError", "Missing required parameter: " \o param.name)
    ELSE IF param.name \in DOMAIN arguments
    THEN LET arg_value == arguments[param.name]
             Mismatch(kind) ==
                 Raises("ValueError",
                        "Parameter '" \o param.name \o "' must be " \o kind
                            \o ", got " \o arg_value.type)
         IN  IF param.type = "integer"
             THEN IF ~IsInstance(arg_value, "int") THEN Mismatch("integer") ELSE Returns
             ELSE IF param.type = "string"
             THEN IF ~IsInstance(arg_value, "str") THEN Mismatch("string") ELSE Returns
             ELSE IF param.type = "boolean"
             THEN IF ~IsInstance(arg_value, "bool") THEN Mismatch("boolean") ELSE Returns
             ELSE Returns
    ELSE Returns

RECURSIVE ValidateFrom(_, _, _)
\* The loop `for param in self.parameters` from index i on: the first raise
\* ends it.
ValidateFrom(parameters, i, arguments) ==
    IF i > Len(parameters) THEN Returns
    ELSE LET r == ValidateParameter(parameters[i], arguments)
         IN  IF r.exc # "" THEN r ELSE ValidateFrom(parameters, i + 1, arguments)

\* A validate_arguments that rejects a key no parameter declares.
ValidateArgumentsStrict(tool, arguments) ==
    IF \E k \in DOMAIN arguments :
           \A i \in 1..Len(tool.parameters) : tool.parameters[i].name # k
    THEN Raises("ValueError", "Unknown parameter")
    ELSE ValidateFrom(tool.parameters, 1, arguments)

\* ToolDefinition.validate_arguments(arguments)
ValidateArguments(tool, arguments) == ValidateFrom(tool.parameters, 1, arguments)

(***************************************************************************)
(* ToolRegistry (tool_registry.py).  _tools is the sequence ts of the      *)
(* registered definitions in insertion order; its keys are their names.    *)
(***************************************************************************)
\* `name in self._tools`
Registered(ts, name) == \E i \in 1..Len(ts) : ts[i].name = name

\* ToolRegistry.get(name): self._tools.get(name), None when absent.
RegistryGet(ts, name) ==
    IF Registered(ts, name)
    THEN <<ts[CHOOSE i \in 1..Len(ts) : ts[i].name = name]>>
    ELSE <<>>

\* A register that does not look for the name first: the assignment
\* self._tools[tool.name] = tool replaces the value of an existing key.
RegistryRegisterOverwrite(ts, tool) ==
    [tools |-> IF Registered(ts, tool.name)
               THEN [i \in 1..Len(ts) |-> IF ts[i].name = tool.name THEN tool ELSE ts[i]]
               ELSE Append(ts, tool),
     out   |-> Returns]

\* ToolRegistry.register(tool): the registry after the call and the call's
\* outcome.
RegistryRegister(ts, tool) ==
    IF Registered(ts, tool.name)
    THEN [tools |-> ts,
          out   |-> Raises("ValueError", "Tool '" \o tool.name \o "' already registered")]
    ELSE [tools |-> Append(ts, tool), out |-> Returns]

\* ToolRegistry.list_all(): list(self._tools.values())
RegistryListAll(ts) == ts

\* A clear that leaves the registered tools in place.
RegistryClearKeeps(ts) == ts

\* ToolRegistry.clear()
RegistryClear(ts) == <<>>

\* A validate_and_get that returns the tool it finds without validating.
RegistryValidateAndGetUnchecked(ts, name, arguments) ==
    LET tool == RegistryGet(ts, name)
    IN  IF tool = <<>>
        THEN [out |-> Raises("ValueError", "Unknown tool: " \o name),
              value |-> <<>>, validated |-> FALSE]
        ELSE [out |-> Returns, value |-> tool, validated |-> FALSE]

\* ToolRegistry.validate_and_get(name, arguments): the call's outcome, the
\* value it returns and whether tool.validate_arguments was called.  A
\* ToolDefinition is always truthy, so `not tool` is `tool is None`.
RegistryValidateAndGet(ts, name, arguments) ==
    LET tool == RegistryGet(ts, name)
    IN  IF tool = <<>>
        THEN [out |-> Raises("ValueError", "Unknown tool: " \o name),
              value |-> <<>>, validated |-> FALSE]
        ELSE LET v == ValidateArguments(tool[1], arguments)
             IN  IF v.exc # ""
                 THEN [out |-> v, value |-> <<>>, validated |-> TRUE]
                 ELSE [out |-> Returns, value |-> tool, validated |-> TRUE]

(***************************************************************************)
(* Exceptions.  An exception is its class name (type(e).__name__) and its  *)
(* message (str(e)).                                                       *)
(***************************************************************************)
\* The classes an exception class inherits from, itself included.
\* asyncio.CancelledError, KeyboardInterrupt and SystemExit derive from
\* BaseException only; httpx's transport errors derive from httpx.HTTPError.
ExcBases(T) ==
    CASE T \in {"CancelledError", "KeyboardInterrupt", "SystemExit"} ->
             {T, "BaseException"}
      [] T = "Exception" -> {"Exception", "BaseException"}
      [] T = "JSONDecodeError" ->
             {T, "ValueError", "Exception", "BaseException"}
      [] T \in {"ConnectError", "ReadTimeout"} ->
             {T, "TransportError", "RequestError", "HTTPError", "Exception",
              "BaseException"}
      [] OTHER -> {T, "Exception", "BaseException"}

(***************************************************************************)
(* HighCommandAPIClient (api_client.py).                                   *)
(***************************************************************************)
StartsWith(str, prefix) ==
    Len(str) >= Len(prefix) /\ SubSeq(str, 1, Len(prefix)) = prefix

\* str.lower() on the values ENVIRONMENT takes here.
Lower(str) ==
    CASE str = "Production" -> "production"
      [] str = "PRODUCTION" -> "production"
      [] OTHER -> str

\* os.getenv(key, default)
GetEnv(env, key, default) == IF env[key] = <<>> THEN default ELSE env[key][1]

\* HighCommandAPIClient._validate_production_url()
ValidateProductionUrl(env) ==
    LET environment == Lower(GetEnv(env, "ENVIRONMENT", "development"))
        base_url == GetEnv(env, "HIGH_COMMAND_API_BASE_URL", "http://localhost:5000")
    IN  IF environment = "production" /\ StartsWith(base_url, "http://")
        THEN Raises("ValueError",
                    "Production deployments must use HTTPS. "
                        \o "Set HIGH_COMMAND_API_BASE_URL to an https:// URL.")
        ELSE Returns

\* No HighCommandAPIClient object.
NoClient == [_client |-> "None", is_closed |-> FALSE]
\* HighCommandAPIClient.__init__ after the URL check: self._client = None
NewClient == [_client |-> "None", is_closed |-> FALSE]
\* __aenter__: self._client = httpx.AsyncClient(...), a new open client
AEnter(c) == [c EXCEPT !._client = "AsyncClient", !.is_closed = FALSE]
\* __aexit__: `if self._client: await self._client.aclose()`; _client keeps
\* referring to the closed httpx client.
AExit(c) == IF c._client # "None" THEN [c EXCEPT !.is_closed = TRUE] ELSE c

\* The seven operations and the endpoint each one GETs.
Operations ==
    {"get_war_status", "get_planets", "get_statistics", "get_planet_status",
     "get_campaign_info", "get_biomes", "get_factions"}

Endpoint(op, planet_index) ==
    CASE op = "get_war_status"    -> "/api/war/status"
      [] op = "get_planets"       -> "/api/planets"
      [] op = "get_statistics"    -> "/api/statistics"
      [] op = "get_planet_status" -> "/api/planets/" \o planet_index.repr
      [] op = "get_campaign_info" -> "/api/campaigns/active"
      [] op = "get_biomes"        -> "/api/biomes"
      [] op = "get_factions"      -> "/api/factions"

\* What `await self._client.get(endpoint)` can do: return a response, or
\* raise a transport error, or raise the CancelledError the event loop
\* throws into the suspended call when its task is cancelled.
NoBody == [valid |-> FALSE, value |-> PyNone]
HttpResponse(status_code, reason_phrase, body) ==
    [kind |-> "response", status_code |-> status_code,
     reason_phrase |-> reason_phrase, body |-> body, exc |-> "", msg |-> ""]
GetRaises(exc, msg) ==
    [kind |-> "raise", status_code |-> 0, reason_phrase |-> "", body |-> NoBody,
     exc |-> exc, msg |-> msg]

ReasonPhrase(status_code) ==
    CASE status_code = 200 -> "OK"
      [] status_code = 301 -> "Moved Permanently"
      [] status_code = 404 -> "Not Found"
      [] status_code = 429 -> "Too Many Requests"
      [] status_code = 500 -> "Internal Server Error"
      [] status_code = 503 -> "Service Unavailable"
      [] OTHER             -> ""

StatusCodes == {200, 301, 404, 429, 500, 503}
\* A body that parses to a JSON object, one that parses to null, and one
\* that is not JSON.
Bodies == {[valid |-> TRUE, value |-> PyDict], [valid |-> TRUE, value |-> PyNone],
           [valid |-> FALSE, value |-> PyNone]}

GetOutcomes ==
    {HttpResponse(sc, ReasonPhrase(sc), b) :
        sc \in StatusCodes,
        b \in Bodies}
    \cup {GetRaises("ConnectError", "All connection attempts failed"),
          GetRaises("ReadTimeout", ""),
          GetRaises("CancelledError", "")}

\* What a handler did: returned a value or raised an exception.
Returned(value) == [kind |-> "returned", value |-> value, exc |-> "", msg |-> ""]
Raised(exc, msg) == [kind |-> "raised", value |-> PyNone, exc |-> exc, msg |-> msg]

\* A classification that tests the 400..499 range before 429.
HandleResponseRangeFirst(resp) ==
    LET status_code == resp.status_code
    IN  IF 200 <= status_code /\ status_code < 300
        THEN IF resp.body.valid
             THEN Returned(resp.body.value)
             ELSE Raised("JSONDecodeError", "Expecting value: line 1 column 1 (char 0)")
        ELSE LET error_msg ==
                     IF 500 <= status_code /\ status_code < 600
                     THEN "Server error (" \o ToString(status_code) \o "): "
                              \o resp.reason_phrase
                     ELSE IF 400 <= status_code /\ status_code < 500
                     THEN "Client error (" \o ToString(status_code) \o "): "
                              \o resp.reason_phrase
                     ELSE IF status_code = 429
                     THEN "Rate limit exceeded"
                     ELSE "HTTP error (" \o ToString(status_code) \o "): "
                              \o resp.reason_phrase
             IN  Raised("RuntimeError", error_msg)

\* HighCommandAPIClient._handle_response(response, endpoint):
\* response.raise_for_status() raises HTTPStatusError unless the status is
\* 2xx; response.json() raises JSONDecodeError on a body that is not JSON.
HandleResponse(resp) ==
    LET status_code == resp.status_code
    IN  IF 200 <= status_code /\ status_code < 300
        THEN IF resp.body.valid
             THEN Returned(resp.body.value)
             ELSE Raised("JSONDecodeError", "Expecting value: line 1 column 1 (char 0)")
        ELSE LET error_msg ==
                     IF 500 <= status_code /\ status_code < 600
                     THEN "Server error (" \o ToString(status_code) \o "): "
                              \o resp.reason_phrase
                     ELSE IF status_code = 429
                     THEN "Rate limit exceeded"
                     ELSE IF 400 <= status_code /\ status_code < 500
                     THEN "Client error (" \o ToString(status_code) \o "): "
                              \o resp.reason_phrase
                     ELSE "HTTP error (" \o ToString(status_code) \o "): "
                              \o resp.reason_phrase
             IN  Raised("RuntimeError", error_msg)

\* A check that takes every client for an initialized one.
ClientReadyAlways(c) == TRUE

\* The start of an operation get_*(): the check of self._client.  TRUE when
\* the operation goes on to issue its GET.
ClientReady(c) == c._client # "None"
NotInitialized == Raised("RuntimeError", "Client not initialized. Use as async context manager.")

(***************************************************************************)
(* HighCommandTools._run_tool and the _fetch closures (tools.py).          *)
(***************************************************************************)
\* A callable: whether inspect.iscoroutinefunction holds of it, the name of
\* its type, and its body: it returns `value`, raises exc(msg), or is the
\* _fetch closure of a tool for operation `op`.
Callable(is_coroutine_function, kind, value, exc, msg, op, planet_index) ==
    [is_coroutine_function |-> is_coroutine_function, type_name |-> "function",
     kind |-> kind, value |-> value, exc |-> exc, msg |-> msg, op |-> op,
     planet_index |-> planet_index]
NoFunc == Callable(FALSE, "", PyNone, "", "", "", PyNone)
ReturnFunc(is_coroutine_function, value) ==
    Callable(is_coroutine_function, "return", value, "", "", "", PyNone)
RaiseFunc(exc, msg) == Callable(TRUE, "raise", PyNone, exc, msg, "", PyNone)
\* async def _fetch() of the tool method for op.
FetchFunc(op, planet_index) == Callable(TRUE, "fetch", PyNone, "", "", op, planet_index)

\* A check that takes every callable for a coroutine function.
IsCoroutineFunctionAlways(f) == TRUE

\* inspect.iscoroutinefunction(func)
IsCoroutineFunction(f) == f.is_coroutine_function

\* `except BaseException`: a handler that catches every exception.
ExceptBaseExceptionCatches(exc) == "BaseException" \in ExcBases(exc)

\* `except Exception` catches e.
ExceptExceptionCatches(exc) == "Exception" \in ExcBases(exc)

\* (time.perf_counter() - start_time) * 1000
ElapsedMs(start, now) == (now - start) * 1000

\* An error message without the exception's type: str(e) alone.
ErrorMsgBare(error_type, str_e) == str_e

\* error_msg = f"{error_type}: {str(e)}"
ErrorMsg(error_type, str_e) == error_type \o ": " \o str_e

\* The response dict of the try branch.
SuccessResponse(data, metrics, elapsed_ms) ==
    IF metrics
    THEN [status |-> "success", data |-> data, error |-> PyNone,
          metrics |-> [elapsed_ms |-> elapsed_ms]]
    ELSE [status |-> "success", data |-> data, error |-> PyNone]

\* An except branch that reports `str(e) or None`.
ErrorResponseMessageOrNone(error_type, str_e, metrics, elapsed_ms) ==
    LET error == IF str_e = "" THEN PyNone ELSE PyString(ErrorMsg(error_type, str_e))
    IN  IF metrics
        THEN [status |-> "error", data |-> PyNone, error |-> error,
              metrics |-> [elapsed_ms |-> elapsed_ms]]
        ELSE [status |-> "error", data |-> PyNone, error |-> error]

\* An except branch that does not attach the metrics.
ErrorResponseNoMetrics(error_type, str_e, metrics, elapsed_ms) ==
    [status |-> "error", data |-> PyNone,
     error |-> PyString(ErrorMsg(error_type, str_e))]

\* The response dict of the except branch.
ErrorResponse(error_type, str_e, metrics, elapsed_ms) ==
    IF metrics
    THEN [status |-> "error", data |-> PyNone,
          error |-> PyString(ErrorMsg(error_type, str_e)),
          metrics |-> [elapsed_ms |-> elapsed_ms]]
    ELSE [status |-> "error", data |-> PyNone,
          error |-> PyString(ErrorMsg(error_type, str_e))]

\* _run_tool from the point where `await func()` finished with outcome o:
\* the response it returns, or the exception that leaves it.
Finish(o, metrics, start, now) ==
    IF o.kind = "returned"
    THEN [pc |-> "done", propagated |-> Returns,
          response |-> <<SuccessResponse(o.value, metrics, ElapsedMs(start, now))>>]
    ELSE IF ExceptExceptionCatches(o.exc)
    THEN [pc |-> "done", propagated |-> Returns,
          response |-> <<ErrorResponse(o.exc, o.msg, metrics, ElapsedMs(start, now))>>]
    ELSE [pc |-> "raised", propagated |-> Raises(o.exc, o.msg), response |-> <<>>]

\* A _fetch whose campaign-info operation fails before any GET.
HandlerStartCampaignUnavailable(f, env) ==
    IF f.kind = "return"
    THEN [outcome |-> <<Returned(f.value)>>, client |-> NoClient, opened |-> 0,
          closed |-> 0, requests |-> <<>>]
    ELSE IF f.kind = "raise"
    THEN [outcome |-> <<Raised(f.exc, f.msg)>>, client |-> NoClient, opened |-> 0,
          closed |-> 0, requests |-> <<>>]
    ELSE LET v == ValidateProductionUrl(env)
         IN  IF v.exc # ""
             THEN [outcome |-> <<Raised(v.exc, v.msg)>>, client |-> NoClient,
                   opened |-> 0, closed |-> 0, requests |-> <<>>]
             ELSE LET c == AEnter(NewClient)
                  IN  IF f.op = "get_campaign_info"
                      THEN [outcome |-> <<Raised("NotImplementedError",
                                                 "Campaign endpoint not available")>>,
                            client |-> AExit(c), opened |-> 1, closed |-> 1,
                            requests |-> <<>>]
                      ELSE [outcome |-> <<>>, client |-> c, opened |-> 1, closed |-> 0,
                            requests |-> <<Endpoint(f.op, f.planet_index)>>]

\* A _fetch that issues its GET a second time on the same client.
HandlerStartRepeatsGet(f, env) ==
    IF f.kind = "return"
    THEN [outcome |-> <<Returned(f.value)>>, client |-> NoClient, opened |-> 0,
          closed |-> 0, requests |-> <<>>]
    ELSE IF f.kind = "raise"
    THEN [outcome |-> <<Raised(f.exc, f.msg)>>, client |-> NoClient, opened |-> 0,
          closed |-> 0, requests |-> <<>>]
    ELSE LET v == ValidateProductionUrl(env)
         IN  IF v.exc # ""
             THEN [outcome |-> <<Raised(v.exc, v.msg)>>, client |-> NoClient,
                   opened |-> 0, closed |-> 0, requests |-> <<>>]
             ELSE LET c == AEnter(NewClient)
                  IN  [outcome |-> <<>>, client |-> c, opened |-> 1, closed |-> 0,
                       requests |-> <<Endpoint(f.op, f.planet_index),
                                      Endpoint(f.op, f.planet_index)>>]

\* func() run from its call to its first suspension or its end.  _fetch
\* constructs the client (the URL check may raise), enters its context and
\* calls the operation, which suspends on the GET.
HandlerStart(f, env) ==
    IF f.kind = "return"
    THEN [outcome |-> <<Returned(f.value)>>, client |-> NoClient, opened |-> 0,
          closed |-> 0, requests |-> <<>>]
    ELSE IF f.kind = "raise"
    THEN [outcome |-> <<Raised(f.exc, f.msg)>>, client |-> NoClient, opened |-> 0,
          closed |-> 0, requests |-> <<>>]
    ELSE LET v == ValidateProductionUrl(env)
         IN  IF v.exc # ""
             THEN [outcome |-> <<Raised(v.exc, v.msg)>>, client |-> NoClient,
                   opened |-> 0, closed |-> 0, requests |-> <<>>]
             ELSE LET c == AEnter(NewClient)
                  IN  IF ClientReady(c)
                      THEN [outcome |-> <<>>, client |-> c, opened |-> 1, closed |-> 0,
                            requests |-> <<Endpoint(f.op, f.planet_index)>>]
                      ELSE [outcome |-> <<NotInitialized>>, client |-> AExit(c),
                            opened |-> 1, closed |-> 0, requests |-> <<>>]

\* A _fetch that leaves its client open when the operation raised.
HandlerResumeLeakOnRaise(c, got) ==
    IF got.kind = "raise"
    THEN [outcome |-> Raised(got.exc, got.msg), client |-> c, closed |-> 0]
    ELSE [outcome |-> HandleResponse(got), client |-> AExit(c),
          closed |-> IF c._client # "None" THEN 1 ELSE 0]

\* A _fetch that closes its client only on an outcome `except Exception`
\* would see, so that a cancelled GET leaves it open.
HandlerResumeLeakOnCancel(c, got) ==
    IF got.kind = "raise" /\ ~ExceptExceptionCatches(got.exc)
    THEN [outcome |-> Raised(got.exc, got.msg), client |-> c, closed |-> 0]
    ELSE [outcome |-> IF got.kind = "raise" THEN Raised(got.exc, got.msg)
                      ELSE HandleResponse(got),
          client |-> AExit(c),
          closed |-> IF c._client # "None" THEN 1 ELSE 0]

\* _fetch from the point where the GET finished with `got` to the call of
\* aclose(): the operation hands the response to _handle_response, and
\* __aexit__ is entered whether the operation returned or raised; `outcome`
\* is what the operation did, which leaves the block when aclose() ends.
HandlerResume(c, got) ==
    [outcome |-> IF got.kind = "raise" THEN Raised(got.exc, got.msg)
                 ELSE HandleResponse(got),
     client  |-> AExit(c),
     closed  |-> IF c._client # "None" THEN 1 ELSE 0]

WrapperIdle ==
    /\ environ = [ENVIRONMENT |-> <<>>, HIGH_COMMAND_API_BASE_URL |-> <<>>]
    /\ entry = ""
    /\ pc = "idle"
    /\ suspended_in = ""
    /\ pending = <<>>
    /\ func = NoFunc
    /\ include_metrics = FALSE
    /\ clock = 0
    /\ start_time = 0
    /\ outcome = <<>>
    /\ response = <<>>
    /\ propagated = Returns
    /\ calls = 0
    /\ client = NoClient
    /\ opened = 0
    /\ closed = 0
    /\ requests = <<>>

\* No call of call_tool or list_tools, no client used directly, no response
\* classified.
NoOp == [op |-> "", planet_index |-> PyNone, ctx |-> "", aexit |-> "",
         got |-> GetRaises("", ""),
         outcome |-> <<>>, handled |-> FALSE, sent |-> 0]
NoResponse == HttpResponse(0, "", NoBody)
ServerIdle ==
    /\ call_name = ""
    /\ call_arguments = <<>>
    /\ call_pc = "idle"
    /\ call_result = <<>>
    /\ call_raised = Returns
    /\ listed = <<>>
ClientIdle ==
    /\ ctx = "none"
    /\ lastOp = NoOp
    /\ aexit = ""
    /\ inflight = <<>>
ClassifyIdle ==
    /\ hresponse = NoResponse
    /\ hresult = <<>>
\* The api_client module is not followed from its import, and no tasks run.
GuardIdle ==
    /\ BASE_URL = ""
    /\ built_env = <<>>
    /\ conn_urls = <<>>
    /\ sent_to = <<>>
TaskIdle ==
    /\ task = <<>>
    /\ conns = <<>>
FrontIdle == ServerIdle /\ ClientIdle /\ ClassifyIdle /\ GuardIdle /\ TaskIdle

(***************************************************************************)
(* validate_arguments on drawn inputs.                                     *)
(***************************************************************************)
\* The definitions validate_arguments is applied to: every parameter list
\* of at most MaxParams parameters.
DrawnTools ==
    [name : {"get_planet_status"}, description : {"Get status for a specific planet"},
     handler : {"h1"}, parameters : SeqsUpTo(ToolParameter, MaxParams)]

NoTool == [name |-> "", description |-> "", handler |-> "", parameters |-> <<>>]
NoRet == [op |-> "", name |-> "", tool |-> <<>>, arguments |-> <<>>, exc |-> "",
          msg |-> "", value |-> <<>>, validated |-> FALSE]

RegistryIdle ==
    /\ tools = <<>>
    /\ ret = NoRet
    /\ firstAttempt = [n \in {} |-> <<>>]

InitValidate ==
    /\ vtool \in DrawnTools
    /\ varguments \in Arguments
    /\ vresult = <<>>
    /\ schemas = <<>>
    /\ RegistryIdle
    /\ WrapperIdle
    /\ FrontIdle

\* tool.validate_arguments(arguments) is called.
Validate ==
    /\ vresult = <<>>
    /\ vresult' = <<ValidateArguments(vtool, varguments)>>
    /\ UNCHANGED <<vtool, varguments, schemas>>
    /\ UNCHANGED registryVars
    /\ UNCHANGED <<wrapperVars, frontVars>>

NextValidate == Validate

SpecValidate == InitValidate /\ [][NextValidate]_vars

(***************************************************************************)
(* Properties of validate_arguments (checked under SpecValidate).          *)
(***************************************************************************)
\* The kind of the spec's data model a Python value is of.
KindOf(value) ==
    CASE value.type = "int"   -> "integer"
      [] value.type = "str"   -> "string"
      [] value.type = "bool"  -> "boolean"
      [] value.type = "float" -> "number"
      [] OTHER                -> "null"

CheckedKinds == {"integer", "string", "boolean"}
ParamsOf(tool) == {tool.parameters[i] : i \in 1..Len(tool.parameters)}
DeclaredNames(tool) == {p.name : p \in ParamsOf(tool)}
Restrict(arguments, names) == [k \in DOMAIN arguments \cap names |-> arguments[k]]

\* p is required and absent from the arguments.
MissingIn(p, arguments) == p.required /\ p.name \notin DOMAIN arguments
\* p is of a checked kind and present with a value of a different kind.
MistypedIn(p, arguments) ==
    /\ p.type \in CheckedKinds
    /\ p.name \in DOMAIN arguments
    /\ KindOf(arguments[p.name]) # p.type

\* C3: a required parameter that is absent makes validate_arguments fail
\* with a message containing its name; a parameter of kind integer, string
\* or boolean present with a value of a different kind makes it fail with a
\* message naming the parameter and the expected kind; with neither, for
\* every declared parameter, validate_arguments succeeds.
C3_ValidationCompleteness ==
    vresult # <<>> =>
        LET o == vresult[1]
            P == ParamsOf(vtool)
        IN  /\ \A p \in P : MissingIn(p, varguments) =>
                   o.exc = "ValueError" /\ Contains(o.msg, p.name)
            /\ \A p \in P : MistypedIn(p, varguments) =>
                   /\ o.exc = "ValueError"
                   /\ Contains(o.msg, p.name)
                   /\ Contains(o.msg, p.type)
            /\ (\A p \in P : ~MissingIn(p, varguments) /\ ~MistypedIn(p, varguments))
                   => o = Returns

\* C4: a boolean does not satisfy an integer constraint: with a parameter
\* declared integer set to true or false, validate_arguments fails, and
\* when no other parameter is at fault the failure is the type mismatch
\* 'must be integer'.
C4_BooleanIsNotInteger ==
    vresult # <<>> =>
        \A p \in ParamsOf(vtool) :
            ( /\ p.type = "integer"
              /\ p.name \in DOMAIN varguments
              /\ varguments[p.name] \in {PyTrue, PyFalse} )
            => /\ vresult[1].exc = "ValueError"
               /\ (\A q \in ParamsOf(vtool) :
                       q.name # p.name =>
                           ~MissingIn(q, varguments) /\ ~MistypedIn(q, varguments))
                  => Contains(vresult[1].msg, "must be integer")

\* C5: the outcome of validate_arguments depends only on the entries whose
\* names are declared parameters: it is the outcome for the arguments with
\* every undeclared key removed (so two mappings that agree on the declared
\* names have the same outcome), and a tool with no parameters accepts
\* every arguments mapping.
C5_UndeclaredKeysIgnored ==
    vresult # <<>> =>
        /\ vresult[1] = ValidateArguments(vtool, Restrict(varguments, DeclaredNames(vtool)))
        /\ vtool.parameters = <<>> => vresult[1] = Returns

\* C5's case: a tool with parameters validated arguments that carry the
\* undeclared key and a name this tool does not declare, and accepted them.
C5_Witness ==
    /\ vresult # <<>>
    /\ vtool.parameters # <<>>
    /\ UndeclaredKey \in DOMAIN varguments
    /\ \E k \in DOMAIN varguments \cap ParamNames : k \notin DeclaredNames(vtool)
    /\ \E k \in DOMAIN varguments : k \in DeclaredNames(vtool)
    /\ vresult[1] = Returns

(***************************************************************************)
(* A ToolRegistry under arbitrary calls.                                   *)
(***************************************************************************)
RegNames == {"get_planets", "get_planet_status"}
\* The names looked up: the registrable ones and one never registered.
LookupNames == RegNames \cup {"get_unicorns"}
PlanetIndexParam ==
    [name |-> "planet_index", type |-> "integer",
     description |-> "The index of the planet", required |-> TRUE]
\* The definitions register() is called with: two per name and parameter
\* list, told apart by their handler.
RegTools ==
    [name : RegNames, description : {"Get status for a specific planet"},
     handler : {"h1", "h2"}, parameters : {<<>>, <<PlanetIndexParam>>}]

\* The arguments validate_and_get is called with: planet_index absent or of
\* any value, with or without the undeclared key.
RegArguments ==
    {a \in Arguments :
        /\ "limit" \notin DOMAIN a
        /\ UndeclaredKey \in DOMAIN a => a[UndeclaredKey] = PyTrue}

ValidateIdle ==
    /\ vtool = NoTool
    /\ varguments = <<>>
    /\ vresult = <<>>
    /\ schemas = <<>>

\* ToolRegistry.__init__
InitRegistry ==
    /\ RegistryIdle
    /\ ValidateIdle
    /\ WrapperIdle
    /\ FrontIdle

Register(tool) ==
    LET r == RegistryRegister(tools, tool)
    IN  /\ tools' = r.tools
        /\ ret' = [NoRet EXCEPT !.op = "register", !.name = tool.name,
                                !.tool = <<tool>>, !.exc = r.out.exc, !.msg = r.out.msg]
        /\ firstAttempt' =
               IF tool.name \in DOMAIN firstAttempt THEN firstAttempt
               ELSE [n \in DOMAIN firstAttempt \cup {tool.name} |->
                        IF n = tool.name THEN tool ELSE firstAttempt[n]]
        /\ UNCHANGED <<validateVars, wrapperVars, frontVars>>

Get(name) ==
    /\ ret' = [NoRet EXCEPT !.op = "get", !.name = name,
                            !.value = RegistryGet(tools, name)]
    /\ UNCHANGED <<tools, firstAttempt>>
    /\ UNCHANGED <<validateVars, wrapperVars, frontVars>>

ListAll ==
    /\ ret' = [NoRet EXCEPT !.op = "list_all", !.value = RegistryListAll(tools)]
    /\ UNCHANGED <<tools, firstAttempt>>
    /\ UNCHANGED <<validateVars, wrapperVars, frontVars>>

ValidateAndGet(name, arguments) ==
    LET r == RegistryValidateAndGet(tools, name, arguments)
    IN  /\ ret' = [NoRet EXCEPT !.op = "validate_and_get", !.name = name,
                                !.arguments = <<arguments>>, !.exc = r.out.exc,
                                !.msg = r.out.msg, !.value = r.value,
                                !.validated = r.validated]
        /\ UNCHANGED <<tools, firstAttempt>>
        /\ UNCHANGED <<validateVars, wrapperVars, frontVars>>

Clear ==
    /\ tools' = RegistryClear(tools)
    /\ ret' = [NoRet EXCEPT !.op = "clear"]
    /\ firstAttempt' = [n \in {} |-> <<>>]
    /\ UNCHANGED <<validateVars, wrapperVars, frontVars>>

NextRegistry ==
    \/ \E tool \in RegTools : Register(tool)
    \/ \E name \in LookupNames : Get(name)
    \/ ListAll
    \/ \E name \in LookupNames, arguments \in RegArguments : ValidateAndGet(name, arguments)
    \/ Clear

SpecRegistry == InitRegistry /\ [][NextRegistry]_vars

\* C1: a register of a definition whose name is already registered raises
\* ValueError 'already registered', leaves the registry's contents unchanged,
\* and get of that name still returns the first-registered definition.
C1_DuplicateRegisterFails ==
    [][ (ret'.op = "register" /\ Registered(tools, ret'.name)) =>
            /\ ret'.exc = "ValueError"
            /\ Contains(ret'.msg, "already registered")
            /\ tools' = tools
            /\ ret'.name \in DOMAIN firstAttempt
            /\ RegistryGet(tools', ret'.name) = <<firstAttempt[ret'.name]>> ]_vars

\* C1's case: with two tools registered, a register of another definition
\* under a registered name was refused.
C1_Witness ==
    /\ ret.op = "register"
    /\ ret.exc = "ValueError"
    /\ Len(tools) = 2
    /\ RegistryGet(tools, ret.name) # ret.tool

\* C2: validate_and_get of a name that is not registered fails with
\* 'Unknown tool: {name}' and validates nothing; of a registered name it
\* validates the arguments against that tool and returns the definition
\* registered under the name when validation passes, and raises the
\* validation failure, returning nothing, when it fails.
C2_ValidateAndGet ==
    ret.op = "validate_and_get" =>
        IF ~Registered(tools, ret.name)
        THEN /\ ret.exc = "ValueError"
             /\ ret.msg = "Unknown tool: " \o ret.name
             /\ ~ret.validated
             /\ ret.value = <<>>
        ELSE /\ ret.validated
             /\ ret.name \in DOMAIN firstAttempt
             /\ LET registered == firstAttempt[ret.name]
                    v == ValidateArguments(registered, ret.arguments[1])
                IN  IF v = Returns
                    THEN ret.exc = "" /\ ret.value = <<registered>>
                    ELSE ret.exc = v.exc /\ ret.msg = v.msg /\ ret.value = <<>>

\* C2's cases: a registered tool with a required parameter was returned
\* after its arguments passed validation.
C2_Witness ==
    /\ ret.op = "validate_and_get"
    /\ ret.exc = ""
    /\ ret.value # <<>>
    /\ ret.value[1].parameters # <<>>
    /\ "planet_index" \in DOMAIN ret.arguments[1]

(***************************************************************************)
(* One invocation of _run_tool, called directly or by a tool method.       *)
(***************************************************************************)
Environs ==
    [ENVIRONMENT : {<<>>, <<"production">>, <<"Production">>},
     HIGH_COMMAND_API_BASE_URL : {<<>>, <<"https://api.example.com">>}]

\* The planet_index values get_planet_status_tool is called with.
PlanetIndexes == {PyInt, PyZero, PyStr}

\* The callables passed to _run_tool directly: async functions that return
\* a value (a dict, None) or raise, plain functions, and the _fetch closures.
Handlers ==
    {ReturnFunc(TRUE, PyDict), ReturnFunc(TRUE, PyNone), ReturnFunc(FALSE, PyDict),
     RaiseFunc("ValueError", "boom"), RaiseFunc("Exception", "Test error"),
     RaiseFunc("RuntimeError", ""), RaiseFunc("CancelledError", ""),
     RaiseFunc("KeyboardInterrupt", ""), RaiseFunc("SystemExit", "1")}
    \cup {FetchFunc(op, PyInt) : op \in Operations}
    \cup {[FetchFunc(op, PyInt) EXCEPT !.is_coroutine_function = FALSE] :
            op \in {"get_planets"}}

InitWrapper ==
    /\ environ \in Environs
    /\ entry = ""
    /\ pc = "init"
    /\ suspended_in = ""
    /\ pending = <<>>
    /\ func = NoFunc
    /\ include_metrics = FALSE
    /\ clock = 0
    /\ start_time = 0
    /\ outcome = <<>>
    /\ response = <<>>
    /\ propagated = Returns
    /\ calls = 0
    /\ client = NoClient
    /\ opened = 0
    /\ closed = 0
    /\ requests = <<>>
    /\ RegistryIdle
    /\ ValidateIdle
    /\ FrontIdle

\* _run_tool(f, metrics) is called and runs to its first suspension: the
\* check of f, the start reading of the clock, and func() up to its GET or
\* to its end.
RunToolCall(f, metrics, via) ==
    /\ pc = "init"
    /\ entry' = via
    /\ func' = f
    /\ include_metrics' = metrics
    /\ UNCHANGED <<environ, pending, validateVars, registryVars>>
    /\ IF ~IsCoroutineFunction(f)
       THEN /\ pc' = "raised"
            /\ suspended_in' = "done"
            /\ propagated' = Raises("TypeError", "Expected async function, got " \o f.type_name)
            /\ UNCHANGED <<clock, start_time, outcome, response, calls, client,
                           opened, closed, requests>>
       ELSE \E t \in clock..MaxClock :
              LET h == HandlerStart(f, environ)
              IN  /\ start_time' = t
                  /\ calls' = calls + 1
                  /\ client' = h.client
                  /\ opened' = opened + h.opened
                  /\ closed' = closed + h.closed
                  /\ requests' = requests \o h.requests
                  /\ outcome' = h.outcome
                  /\ IF h.outcome = <<>>
                     THEN /\ pc' = "awaiting"
                          /\ suspended_in' = "get"
                          /\ clock' = t
                          /\ UNCHANGED <<response, propagated>>
                     ELSE \E now \in t..MaxClock :
                            LET fin == Finish(h.outcome[1], metrics, t, now)
                            IN  /\ clock' = now
                                /\ suspended_in' = "done"
                                /\ pc' = fin.pc
                                /\ response' = fin.response
                                /\ propagated' = fin.propagated

\* A direct call of HighCommandTools._run_tool.
RunTool(f, metrics) ==
    /\ RunToolCall(f, metrics, "_run_tool")
    /\ UNCHANGED frontVars

\* A tool method: `return await self._run_tool(_fetch)`, include_metrics
\* left at its default.
ToolMethodCall(op, planet_index) ==
    RunToolCall(FetchFunc(op, planet_index), FALSE, op \o "_tool")

\* A tool method called directly.
ToolMethod(op, planet_index) ==
    /\ ToolMethodCall(op, planet_index)
    /\ UNCHANGED frontVars

\* What is thrown into `await self._client.aclose()` when it is resumed:
\* nothing, or the CancelledError of a cancelled task.
CloseOutcomes == {Returns, Raises("CancelledError", "")}

\* What leaves the `async with` block once aclose() was resumed with
\* `closing`: the operation's own result when aclose() returned (__aexit__
\* returns None and suppresses nothing), the exception of aclose() when it
\* raised.
HandlerAfterClose(held, closing) ==
    IF closing.exc # "" THEN Raised(closing.exc, closing.msg) ELSE held

\* The awaited GET finishes with `got`: the operation hands the response
\* to _handle_response, and _fetch leaves the `async with` block through
\* __aexit__, which suspends in `await self._client.aclose()` with the
\* httpx client already closed.  When __aexit__ calls no aclose(), _fetch
\* and _run_tool run to the end.
ResumeCall(got) ==
    /\ pc = "awaiting"
    /\ suspended_in = "get"
    /\ LET h == HandlerResume(client, got)
       IN  /\ client' = h.client
           /\ closed' = closed + h.closed
           /\ IF h.closed > 0
              THEN /\ pending' = <<h.outcome>>
                   /\ suspended_in' = "aclose"
                   /\ UNCHANGED <<pc, clock, outcome, response, propagated>>
              ELSE /\ outcome' = <<h.outcome>>
                   /\ suspended_in' = "done"
                   /\ UNCHANGED pending
                   /\ \E now \in clock..MaxClock :
                        LET fin == Finish(h.outcome, include_metrics, start_time, now)
                        IN  /\ clock' = now
                            /\ pc' = fin.pc
                            /\ response' = fin.response
                            /\ propagated' = fin.propagated
    /\ UNCHANGED <<environ, entry, func, include_metrics, start_time, calls,
                   opened, requests>>
    /\ UNCHANGED <<validateVars, registryVars>>

\* aclose() is resumed with `closing`: __aexit__ ends, what leaves the
\* `async with` block ends `await func()`, and _run_tool runs to its end.
CloseCall(closing) ==
    /\ pc = "awaiting"
    /\ suspended_in = "aclose"
    /\ LET o == HandlerAfterClose(pending[1], closing)
       IN  /\ outcome' = <<o>>
           /\ \E now \in clock..MaxClock :
                LET fin == Finish(o, include_metrics, start_time, now)
                IN  /\ clock' = now
                    /\ pc' = fin.pc
                    /\ response' = fin.response
                    /\ propagated' = fin.propagated
    /\ suspended_in' = "done"
    /\ pending' = <<>>
    /\ UNCHANGED <<environ, entry, func, include_metrics, start_time, calls,
                   client, opened, closed, requests>>
    /\ UNCHANGED <<validateVars, registryVars>>

\* The GET of a tool method or _run_tool called directly finishes.
Resume(got) ==
    /\ ResumeCall(got)
    /\ UNCHANGED frontVars

\* The aclose() of a tool method or _run_tool called directly finishes.
Close(closing) ==
    /\ CloseCall(closing)
    /\ UNCHANGED frontVars

NextWrapper ==
    \/ \E f \in Handlers, metrics \in BOOLEAN : RunTool(f, metrics)
    \/ \E op \in Operations \ {"get_planet_status"} : ToolMethod(op, PyNone)
    \/ \E planet_index \in PlanetIndexes : ToolMethod("get_planet_status", planet_index)
    \/ \E got \in GetOutcomes : Resume(got)
    \/ \E closing \in CloseOutcomes : Close(closing)

SpecWrapper == InitWrapper /\ [][NextWrapper]_vars

(***************************************************************************)
(* Properties of _run_tool (checked under SpecWrapper).                    *)
(***************************************************************************)
EnvelopeKeys == {"status", "data", "error"}
\* The exception classes that derive from BaseException and not Exception.
BaseOnly == {"CancelledError", "KeyboardInterrupt", "SystemExit"}

\* C6 as stated: in every result exactly one of data and error is non-null,
\* status is 'success' exactly when data is the populated one and 'error'
\* exactly when error is.
C6_ExactlyOnePopulated ==
    pc = "done" =>
        LET r == response[1]
        IN  /\ (r.data # PyNone) # (r.error # PyNone)
            /\ r.status = "success" <=> r.data # PyNone
            /\ r.status = "error" <=> r.error # PyNone

\* C6 as amended: in every result status is 'error' exactly when error is
\* non-null, and data is then null; status is 'success' exactly when error
\* is null; data and error are never both non-null; and exactly one of them
\* is non-null unless the handler returned a null value, when both are null
\* and status is 'success'.
C6_EnvelopeInvariant ==
    pc = "done" =>
        LET r == response[1]
        IN  /\ r.status \in {"success", "error"}
            /\ r.status = "error" <=> r.error # PyNone
            /\ r.status = "success" <=> r.error = PyNone
            /\ r.status = "error" => r.data = PyNone
            /\ ~(r.data # PyNone /\ r.error # PyNone)
            /\ outcome # <<Returned(PyNone)>> => (r.data # PyNone) # (r.error # PyNone)
            /\ outcome = <<Returned(PyNone)>> =>
                   r.status = "success" /\ r.data = PyNone /\ r.error = PyNone

\* C6's case: a tool invocation whose fetch returned a null value (the body
\* `null`) ended with its result.
C6_Witness ==
    /\ pc = "done"
    /\ func.kind = "fetch"
    /\ outcome = <<Returned(PyNone)>>
    /\ response[1].status = "success"

\* C7 as stated: whatever failure an asynchronous handler raises, _run_tool
\* returns an error envelope and lets nothing propagate to its caller.
C7_NothingEscapes ==
    (func.is_coroutine_function /\ outcome # <<>> /\ outcome[1].kind = "raised") =>
        /\ pc = "done"
        /\ propagated = Returns
        /\ response # <<>>
        /\ response[1].status = "error"

\* C7 as amended: a failure of an asynchronous handler that is an Exception
\* yields an error envelope and does not propagate; a failure that derives
\* from BaseException only (CancelledError, KeyboardInterrupt, SystemExit)
\* propagates to the caller and no envelope is returned.
C7_FailureBoundary ==
    (func.is_coroutine_function /\ outcome # <<>> /\ outcome[1].kind = "raised") =>
        IF outcome[1].exc \notin BaseOnly
        THEN /\ pc = "done"
             /\ propagated = Returns
             /\ response # <<>>
             /\ response[1].status = "error"
             /\ response[1].error # PyNone
        ELSE /\ pc = "raised"
             /\ propagated = Raises(outcome[1].exc, outcome[1].msg)
             /\ response = <<>>

\* C7's case: the GET of a tool's fetch raised a transport error, and the
\* invocation ended with an error envelope.
C7_Witness ==
    /\ pc = "done"
    /\ func.kind = "fetch"
    /\ requests # <<>>
    /\ outcome = <<Raised("ConnectError", "All connection attempts failed")>>
    /\ response[1].status = "error"

\* C8: called with a handler that is not an asynchronous function, _run_tool
\* raises TypeError at once: the handler is not called, no connection is
\* opened, no request is issued and no envelope is produced.
C8_NonAsyncFailsFast ==
    (entry # "" /\ ~func.is_coroutine_function) =>
        /\ pc = "raised"
        /\ propagated.exc = "TypeError"
        /\ Contains(propagated.msg, "Expected async function")
        /\ calls = 0
        /\ outcome = <<>>
        /\ opened = 0
        /\ client = NoClient
        /\ requests = <<>>
        /\ response = <<>>

\* C8's case: _run_tool was called with a plain function whose body would
\* fetch, and raised.
C8_Witness ==
    /\ pc = "raised"
    /\ entry = "_run_tool"
    /\ ~func.is_coroutine_function
    /\ func.kind = "fetch"
    /\ propagated.exc = "TypeError"

\* C9: the result is determined by the handler's outcome: a handler that
\* returns v gives {status: success, data: v, error: null}; a result given
\* for a handler that raised T with message m is
\* {status: error, data: null, error: 'T: m'}.
C9_ResultDeterminedByOutcome ==
    /\ (outcome # <<>> /\ outcome[1].kind = "returned") =>
           /\ pc = "done"
           /\ response[1].status = "success"
           /\ response[1].data = outcome[1].value
           /\ response[1].error = PyNone
    /\ (pc = "done" /\ outcome[1].kind = "raised") =>
           /\ response[1].status = "error"
           /\ response[1].data = PyNone
           /\ response[1].error = PyString(outcome[1].exc \o ": " \o outcome[1].msg)

\* C9's case: the handler raised ValueError("boom").
C9_Witness ==
    /\ pc = "done"
    /\ outcome = <<Raised("ValueError", "boom")>>
    /\ response[1].error = PyString("ValueError: boom")

\* C10: the result has a 'metrics' entry, with elapsed_ms >= 0, exactly when
\* include_metrics is set, on success and on failure alike; without it the
\* result has exactly the keys status, data and error, which is the case of
\* every tool method.
C10_MetricsIffRequested ==
    pc = "done" =>
        LET r == response[1]
        IN  /\ "metrics" \in DOMAIN r <=> include_metrics
            /\ include_metrics =>
                   /\ DOMAIN r = EnvelopeKeys \cup {"metrics"}
                   /\ DOMAIN r.metrics = {"elapsed_ms"}
                   /\ r.metrics.elapsed_ms >= 0
            /\ ~include_metrics => DOMAIN r = EnvelopeKeys
            /\ entry # "_run_tool" => ~include_metrics /\ DOMAIN r = EnvelopeKeys

\* C10's case: a failed invocation with include_metrics set reported a
\* positive elapsed time.
C10_Witness ==
    /\ pc = "done"
    /\ include_metrics
    /\ response[1].status = "error"
    /\ response[1].metrics.elapsed_ms > 0

(***************************************************************************)
(* server.py: list_tools and call_tool.                                    *)
(***************************************************************************)
\* json.dumps of the characters of a str: the quote and the backslash are
\* escaped (the strings of the model hold no control or non-ASCII character).
RECURSIVE JsonEscapeRange(_, _, _)
JsonEscapeRange(s, i, j) ==
    IF i > j
    THEN ""
    ELSE IF i = j
    THEN LET c == SubSeq(s, i, i)
         IN  IF c = "\"" THEN "\\\"" ELSE IF c = "\\" THEN "\\\\" ELSE c
    ELSE LET m == (i + j) \div 2
         IN  JsonEscapeRange(s, i, m) \o JsonEscapeRange(s, m + 1, j)
JsonEscape(s) == JsonEscapeRange(s, 1, Len(s))

\* json.dumps of a str.
JsonString(s) == "\"" \o JsonEscape(s) \o "\""

\* json.dumps of a Python value of the model.
JsonValue(v) ==
    CASE v.type = "NoneType" -> "null"
      [] v.type = "str"      -> JsonString(v.repr)
      [] v.type = "bool"     -> IF v.repr = "True" THEN "true" ELSE "false"
      [] v.type = "dict"     -> "{\"id\": 1}"
      [] OTHER               -> v.repr

\* json.dumps(result) of a response dict: its keys in insertion order, with
\* the default separators.
JsonDumps(result) ==
    "{\"status\": " \o JsonString(result.status)
        \o ", \"data\": " \o JsonValue(result.data)
        \o ", \"error\": " \o JsonValue(result.error)
        \o (IF "metrics" \in DOMAIN result
            THEN ", \"metrics\": {\"elapsed_ms\": "
                     \o ToString(result.metrics.elapsed_ms) \o ".0}"
            ELSE "")
        \o "}"

\* TextContent(type="text", text=text)
TextContent(text) == [type |-> "text", text |-> text]

\* Tool(name=..., description=..., inputSchema={...})
Tool(tool_name, description, properties, required) ==
    [name |-> tool_name, description |-> description,
     inputSchema |-> [type |-> "object", properties |-> properties,
                      required |-> required]]

\* A listing that leaves get_factions out.
ListToolsWithoutFactions ==
    << Tool("get_war_status", "Get current war status from High-Command API", <<>>, <<>>),
       Tool("get_planets", "Get planet information from High-Command API", <<>>, <<>>),
       Tool("get_statistics", "Get global game statistics from High-Command API",
            <<>>, <<>>),
       Tool("get_campaign_info", "Get campaign information from High-Command API",
            <<>>, <<>>),
       Tool("get_planet_status", "Get status for a specific planet",
            [planet_index |-> [type |-> "integer",
                               description |-> "The index of the planet"]],
            <<"planet_index">>),
       Tool("get_biomes", "Get biome information from High-Command API", <<>>, <<>>) >>

\* The list list_tools() returns.
ListTools ==
    << Tool("get_war_status", "Get current war status from High-Command API", <<>>, <<>>),
       Tool("get_planets", "Get planet information from High-Command API", <<>>, <<>>),
       Tool("get_statistics", "Get global game statistics from High-Command API",
            <<>>, <<>>),
       Tool("get_campaign_info", "Get campaign information from High-Command API",
            <<>>, <<>>),
       Tool("get_planet_status", "Get status for a specific planet",
            [planet_index |-> [type |-> "integer",
                               description |-> "The index of the planet"]],
            <<"planet_index">>),
       Tool("get_biomes", "Get biome information from High-Command API", <<>>, <<>>),
       Tool("get_factions", "Get faction information from High-Command API", <<>>, <<>>) >>

\* arguments.get(key): None for an absent key; an `arguments` that is None
\* (a JSON null on the /messages route) has no attribute get.
ArgumentsGet(arguments, key) ==
    IF arguments = PyNone
    THEN Raised("AttributeError", "'NoneType' object has no attribute 'get'")
    ELSE IF key \in DOMAIN arguments
    THEN Returned(arguments[key])
    ELSE Returned(PyNone)

\* What the if/elif chain of call_tool decides: to await the tool method of
\* an operation, or to raise.
DispatchTool(op, planet_index) ==
    [kind |-> "tool", op |-> op, planet_index |-> planet_index, exc |-> "", msg |-> ""]
DispatchRaises(exc, msg) ==
    [kind |-> "raise", op |-> "", planet_index |-> PyNone, exc |-> exc, msg |-> msg]

\* A chain that hands planet_index to the tool method without the None check.
CallToolDispatchUnchecked(tool_name, arguments) ==
    IF tool_name = "get_planet_status"
    THEN LET g == ArgumentsGet(arguments, "planet_index")
         IN  IF g.kind = "raised"
             THEN DispatchRaises(g.exc, g.msg)
             ELSE DispatchTool("get_planet_status", g.value)
    ELSE IF tool_name \in {"get_war_status", "get_planets", "get_statistics",
                           "get_campaign_info", "get_biomes", "get_factions"}
    THEN DispatchTool(tool_name, PyNone)
    ELSE DispatchRaises("ValueError", "Unknown tool: " \o tool_name)

\* The if/elif chain in the try block of call_tool.
CallToolDispatch(tool_name, arguments) ==
    IF tool_name = "get_war_status" THEN DispatchTool("get_war_status", PyNone)
    ELSE IF tool_name = "get_planets" THEN DispatchTool("get_planets", PyNone)
    ELSE IF tool_name = "get_statistics" THEN DispatchTool("get_statistics", PyNone)
    ELSE IF tool_name = "get_campaign_info" THEN DispatchTool("get_campaign_info", PyNone)
    ELSE IF tool_name = "get_planet_status"
    THEN LET g == ArgumentsGet(arguments, "planet_index")
         IN  IF g.kind = "raised"
             THEN DispatchRaises(g.exc, g.msg)
             ELSE IF g.value = PyNone
             THEN DispatchRaises("ValueError", "planet_index is required")
             ELSE DispatchTool("get_planet_status", g.value)
    ELSE IF tool_name = "get_biomes" THEN DispatchTool("get_biomes", PyNone)
    ELSE IF tool_name = "get_factions" THEN DispatchTool("get_factions", PyNone)
    ELSE DispatchRaises("ValueError", "Unknown tool: " \o tool_name)

\* A call_tool without its except clause.
CallToolCatchesNothing(exc) == FALSE

\* `except Exception as e` of call_tool catches e.
CallToolCatches(exc) == "Exception" \in ExcBases(exc)

\* An error text that carries the exception's type, as _run_tool's does.
CallToolErrorTyped(exc, str_e) ==
    [status |-> "error", data |-> PyNone, error |-> PyString(exc \o ": " \o str_e)]

\* {"status": "error", "data": None, "error": str(e)}
CallToolError(exc, str_e) ==
    [status |-> "error", data |-> PyNone, error |-> PyString(str_e)]

\* call_tool from the point where its try body finished with outcome o (the
\* dict a tool method returned, or an exception): the list it returns, or
\* the exception that leaves it.
CallToolEnd(o) ==
    IF o.kind = "returned"
    THEN [pc |-> "returned", result |-> << <<TextContent(JsonDumps(o.value))>> >>,
          raised |-> Returns]
    ELSE IF CallToolCatches(o.exc)
    THEN [pc |-> "returned",
          result |-> << <<TextContent(JsonDumps(CallToolError(o.exc, o.msg)))>> >>,
          raised |-> Returns]
    ELSE [pc |-> "raised", result |-> <<>>, raised |-> Raises(o.exc, o.msg)]

\* What the awaited tool method handed back to call_tool, read from the
\* state _run_tool ended in.
ToolMethodOutcome(run_pc, run_response, run_propagated) ==
    IF run_pc = "done"
    THEN Returned(run_response[1])
    ELSE Raised(run_propagated.exc, run_propagated.msg)

\* The names and arguments call_tool is called with.
CallNames ==
    Operations \cup {"invalid_tool", "get_planet", "GET_PLANETS"}
CallArguments ==
    {PyNone}
    \cup {[k \in {} |-> PyNone]}
    \cup {[k \in {"verbose"} |-> PyTrue]}
    \cup { [k \in {"planet_index"} |-> v] :
             v \in {PyInt, PyZero, PyStr, PyTrue, PyNone} }
    \cup { [k \in {"planet_index", "verbose"} |-> IF k = "verbose" THEN PyTrue ELSE v] :
             v \in {PyInt} }

InitServer ==
    /\ environ \in Environs
    /\ entry = ""
    /\ pc = "init"
    /\ suspended_in = ""
    /\ pending = <<>>
    /\ func = NoFunc
    /\ include_metrics = FALSE
    /\ clock = 0
    /\ start_time = 0
    /\ outcome = <<>>
    /\ response = <<>>
    /\ propagated = Returns
    /\ calls = 0
    /\ client = NoClient
    /\ opened = 0
    /\ closed = 0
    /\ requests = <<>>
    /\ call_name = ""
    /\ call_arguments = <<>>
    /\ call_pc = "init"
    /\ call_result = <<>>
    /\ call_raised = Returns
    /\ listed = <<>>
    /\ RegistryIdle
    /\ ValidateIdle
    /\ ClientIdle
    /\ ClassifyIdle
    /\ GuardIdle
    /\ TaskIdle

\* call_tool(tool_name, arguments) is called and runs to its first
\* suspension (the GET of the tool method it awaits) or to its end.
CallTool(tool_name, arguments) ==
    /\ call_pc = "init"
    /\ call_name' = tool_name
    /\ call_arguments' = arguments
    /\ UNCHANGED <<listed, clientVars, classifyVars, guardVars, taskVars>>
    /\ LET d == CallToolDispatch(tool_name, arguments)
       IN  IF d.kind = "raise"
           THEN LET e == CallToolEnd(Raised(d.exc, d.msg))
                IN  /\ call_pc' = e.pc
                    /\ call_result' = e.result
                    /\ call_raised' = e.raised
                    /\ UNCHANGED <<wrapperVars, validateVars, registryVars>>
           ELSE /\ ToolMethodCall(d.op, d.planet_index)
                /\ IF pc' = "awaiting"
                   THEN /\ call_pc' = "awaiting"
                        /\ UNCHANGED <<call_result, call_raised>>
                   ELSE LET e == CallToolEnd(ToolMethodOutcome(pc', response', propagated'))
                        IN  /\ call_pc' = e.pc
                            /\ call_result' = e.result
                            /\ call_raised' = e.raised

\* The GET awaited under call_tool finishes with `got`: _fetch runs to
\* the aclose() of __aexit__ and call_tool stays suspended in the tool
\* method (or runs to its end when no aclose() is awaited).
CallToolResume(got) ==
    /\ call_pc = "awaiting"
    /\ ResumeCall(got)
    /\ IF pc' = "awaiting"
       THEN UNCHANGED <<call_pc, call_result, call_raised>>
       ELSE LET e == CallToolEnd(ToolMethodOutcome(pc', response', propagated'))
            IN  /\ call_pc' = e.pc
                /\ call_result' = e.result
                /\ call_raised' = e.raised
    /\ UNCHANGED <<call_name, call_arguments, listed, clientVars, classifyVars,
                   guardVars, taskVars>>

\* The aclose() awaited under call_tool is resumed with `closing`: _fetch,
\* _run_tool and call_tool run to the end.
CallToolClose(closing) ==
    /\ call_pc = "awaiting"
    /\ CloseCall(closing)
    /\ LET e == CallToolEnd(ToolMethodOutcome(pc', response', propagated'))
       IN  /\ call_pc' = e.pc
           /\ call_result' = e.result
           /\ call_raised' = e.raised
    /\ UNCHANGED <<call_name, call_arguments, listed, clientVars, classifyVars,
                   guardVars, taskVars>>

\* list_tools() is called.
ListToolsCall ==
    /\ listed' = <<ListTools>>
    /\ UNCHANGED <<call_name, call_arguments, call_pc, call_result, call_raised>>
    /\ UNCHANGED <<validateVars, registryVars, wrapperVars, clientVars, classifyVars,
                   guardVars, taskVars>>

NextServer ==
    \/ \E tool_name \in CallNames, arguments \in CallArguments :
          CallTool(tool_name, arguments)
    \/ \E got \in GetOutcomes : CallToolResume(got)
    \/ \E closing \in CloseOutcomes : CallToolClose(closing)
    \/ ListToolsCall

SpecServer == InitServer /\ [][NextServer]_vars

(***************************************************************************)
(* Properties of call_tool and list_tools (checked under SpecServer).      *)
(***************************************************************************)
\* Python's s.endswith(suffix).
EndsWith(s, suffix) ==
    /\ Len(suffix) <= Len(s)
    /\ SubSeq(s, Len(s) - Len(suffix) + 1, Len(s)) = suffix

\* The text of the one TextContent call_tool returned.
CallText == call_result[1][1].text
\* call_tool returned a list of exactly one text content.
OneTextContent ==
    /\ call_pc = "returned"
    /\ call_raised = Returns
    /\ call_result # <<>>
    /\ Len(call_result[1]) = 1
    /\ call_result[1][1].type = "text"

\* text is the JSON object {status: "error", data: null, error: <a string>}.
ErrorEnvelopePrefix == "{\"status\": \"error\", \"data\": null, \"error\": \""
IsErrorEnvelope(text) ==
    /\ StartsWith(text, ErrorEnvelopePrefix)
    /\ EndsWith(text, "\"}")
    /\ Len(text) >= Len(ErrorEnvelopePrefix) + 2
\* The JSON-encoded error string of an error envelope.
ErrorOf(text) == SubSeq(text, Len(ErrorEnvelopePrefix) + 1, Len(text) - 2)
\* text is the JSON object {status: "success", data: <a value>, error: null}.
IsSuccessEnvelope(text) ==
    /\ StartsWith(text, "{\"status\": \"success\", \"data\": ")
    /\ EndsWith(text, ", \"error\": null}")

\* The names of the seven tools.
SevenTools ==
    {"get_war_status", "get_planets", "get_statistics", "get_campaign_info",
     "get_planet_status", "get_biomes", "get_factions"}

\* No tool method ran and nothing was sent or opened.
NothingReached == calls = 0 /\ requests = <<>> /\ opened = 0 /\ pc = "init"

\* C11: a call of call_tool with a name that is not one of the seven tools
\* returns one text content whose JSON is {status: "error", data: null,
\* error: "Unknown tool: <name>"}, the error text carrying no exception-type
\* prefix, whatever the arguments, and no tool method runs and no request
\* is issued.
C11_UnknownToolEnvelope ==
    (call_pc # "init" /\ call_name \notin SevenTools) =>
        /\ OneTextContent
        /\ CallText = "{\"status\": \"error\", \"data\": null, \"error\": \"Unknown tool: "
                          \o call_name \o "\"}"
        /\ NothingReached

C11_Witness ==
    /\ call_pc = "returned"
    /\ call_name = "invalid_tool"
    /\ call_arguments = [k \in {"planet_index"} |-> PyInt]

\* The arguments are a dict without the key planet_index.
PlanetIndexAbsent ==
    /\ call_arguments # PyNone
    /\ "planet_index" \notin DOMAIN call_arguments

\* C12: a call of call_tool for get_planet_status whose arguments lack
\* planet_index returns an error envelope (status "error", data null, an
\* error string that names planet_index), and no tool method runs and no
\* request is issued.
C12_MissingPlanetIndex ==
    (call_pc # "init" /\ call_name = "get_planet_status" /\ PlanetIndexAbsent) =>
        /\ OneTextContent
        /\ IsErrorEnvelope(CallText)
        /\ Contains(ErrorOf(CallText), "planet_index")
        /\ NothingReached

C12_Witness ==
    /\ call_pc = "returned"
    /\ call_name = "get_planet_status"
    /\ call_arguments = [k \in {"verbose"} |-> PyTrue]

\* The arguments carry a planet_index that is neither an integer nor null.
PlanetIndexMistyped ==
    /\ call_arguments # PyNone
    /\ "planet_index" \in DOMAIN call_arguments
    /\ KindOf(call_arguments["planet_index"]) \in {"string", "boolean", "number"}

\* C13: a call of call_tool for get_planet_status whose planet_index is
\* present but not an integer (a string, a boolean) returns an error
\* envelope, and the tool method and the remote request are never reached.
C13_MistypedNeverReachesHandler ==
    (call_pc # "init" /\ call_name = "get_planet_status" /\ PlanetIndexMistyped) =>
        /\ OneTextContent
        /\ IsErrorEnvelope(CallText)
        /\ NothingReached

\* The awaited GET was cancelled: not a remote outcome.
CallCancelled == outcome # <<>> /\ outcome[1].exc = "CancelledError"

\* C14: whatever the name, the arguments and the remote outcome (a success,
\* an HTTP error status, a transport failure), a call of call_tool that has
\* ended returned exactly one text content whose JSON object has the keys
\* status, data and error with status "success" or "error"; no exception
\* left call_tool.
C14_AlwaysOneWellFormedEnvelope ==
    (call_pc \notin {"init", "awaiting"} /\ ~CallCancelled) =>
        /\ OneTextContent
        /\ IsSuccessEnvelope(CallText) \/ IsErrorEnvelope(CallText)

C14_Witness ==
    /\ call_pc = "returned"
    /\ call_name = "get_biomes"
    /\ outcome = <<Raised("ConnectError", "All connection attempts failed")>>
    /\ IsErrorEnvelope(CallText)

\* call_tool answered that it knows no tool of the name it was called with.
UnknownToolAnswer ==
    /\ call_pc = "returned"
    /\ IsErrorEnvelope(CallText)
    /\ StartsWith(ErrorOf(CallText), "Unknown tool: ")

\* C15: every list_tools() call, whatever tool calls it is interleaved
\* with, returns the seven tools, each name once; the required list of each
\* schema is <<planet_index>> for get_planet_status and empty for the
\* others; and call_tool dispatches a name if and only if it is listed.
C15_ListingFixedAndDispatchable ==
    /\ listed # <<>> =>
          LET l == listed[1]
          IN  /\ Len(l) = 7
              /\ {l[i].name : i \in 1..Len(l)} = SevenTools
              /\ \A i \in 1..Len(l) :
                    l[i].inputSchema.required =
                        IF l[i].name = "get_planet_status"
                        THEN <<"planet_index">> ELSE <<>>
              /\ \A i \in 1..Len(l) :
                    DOMAIN l[i].inputSchema.properties =
                        IF l[i].name = "get_planet_status"
                        THEN {"planet_index"} ELSE {}
    /\ call_pc # "init" =>
          (call_name \in {ListTools[i].name : i \in 1..Len(ListTools)}
              <=> ~UnknownToolAnswer)

C15_Witness ==
    /\ listed # <<>>
    /\ call_pc = "returned"
    /\ call_name = "get_factions"
    /\ IsSuccessEnvelope(CallText)

(***************************************************************************)
(* One HighCommandAPIClient object used directly: constructed, entered,    *)
(* operated on and left by a single caller.                                *)
(***************************************************************************)
\* `await self._client.get(endpoint)` on the httpx client of c: a client
\* that was closed by aclose() refuses to send (httpx raises RuntimeError
\* before anything goes out); an open one does what the remote and the
\* network decide, `got`.
ClosedClientError ==
    GetRaises("RuntimeError", "Cannot send a request, as the client has been closed.")
ClientGet(c, got) == IF c.is_closed THEN ClosedClientError ELSE got

\* An operation that reports a failed GET as a RuntimeError of its own.
OperationResumeWrappingTransport(got) ==
    IF got.kind = "raise"
    THEN [outcome |-> Raised("RuntimeError", "Request failed: " \o got.msg),
          handled |-> FALSE]
    ELSE [outcome |-> HandleResponse(got), handled |-> TRUE]

\* HighCommandAPIClient.get_*() from its call to its first suspension: the
\* check of self._client, then `self._client.get(endpoint)`, which a closed
\* httpx client refuses before anything goes out and an open one sends.
\* outcome is <<>> when the operation is suspended in the GET.
OperationStart(c, op, planet_index) ==
    IF ~ClientReady(c)
    THEN [outcome |-> <<NotInitialized>>, sent |-> <<>>]
    ELSE IF c.is_closed
    THEN [outcome |-> <<Raised(ClosedClientError.exc, ClosedClientError.msg)>>,
          sent |-> <<>>]
    ELSE [outcome |-> <<>>, sent |-> <<Endpoint(op, planet_index)>>]

\* The operation from the point where its GET finished with `got`:
\* _handle_response on the response; an exception of the GET passes through.
OperationResume(got) ==
    IF got.kind = "raise"
    THEN [outcome |-> Raised(got.exc, got.msg), handled |-> FALSE]
    ELSE [outcome |-> HandleResponse(got), handled |-> TRUE]

InitClient ==
    /\ environ \in Environs
    /\ entry = ""
    /\ pc = "idle"
    /\ suspended_in = ""
    /\ pending = <<>>
    /\ func = NoFunc
    /\ include_metrics = FALSE
    /\ clock = 0
    /\ start_time = 0
    /\ outcome = <<>>
    /\ response = <<>>
    /\ propagated = Returns
    /\ calls = 0
    /\ client = NoClient
    /\ opened = 0
    /\ closed = 0
    /\ requests = <<>>
    /\ ctx = "none"
    /\ lastOp = NoOp
    /\ aexit = ""
    /\ inflight = <<>>
    /\ RegistryIdle
    /\ ValidateIdle
    /\ ServerIdle
    /\ ClassifyIdle
    /\ GuardIdle
    /\ TaskIdle

\* What the client actions leave alone.
ClientFrame ==
    /\ UNCHANGED <<environ, entry, pc, suspended_in, pending, func, include_metrics,
                   clock, start_time, outcome, response, propagated, calls>>
    /\ UNCHANGED <<validateVars, registryVars, serverVars, classifyVars, taskVars>>

\* HighCommandAPIClient(): the URL check may raise, and then there is no
\* object.
ConstructCall ==
    /\ ctx = "none"
    /\ LET v == ValidateProductionUrl(environ)
       IN  IF v.exc # ""
           THEN ctx' = "rejected" /\ UNCHANGED client
           ELSE ctx' = "new" /\ client' = NewClient
    /\ UNCHANGED <<opened, closed, requests, lastOp, aexit, inflight>>
    /\ ClientFrame

Construct ==
    /\ ConstructCall
    /\ UNCHANGED guardVars

\* `async with client:` is entered; __aenter__ awaits nothing.
EnterCall ==
    /\ ctx \in {"new", "exited"}
    /\ opened < MaxOpens
    /\ ctx' = "open"
    /\ client' = AEnter(client)
    /\ opened' = opened + 1
    /\ UNCHANGED <<closed, requests, lastOp, aexit, inflight>>
    /\ ClientFrame

Enter ==
    /\ EnterCall
    /\ UNCHANGED guardVars

\* The `async with` block is being left, normally or by an exception of
\* its body: __aexit__ calls aclose(), which closes the httpx client and
\* suspends; the block is not left yet.
ExitStart ==
    /\ ctx = "open"
    /\ aexit # "aclose"
    /\ aexit' = "aclose"
    /\ client' = AExit(client)
    /\ closed' = closed + (IF client._client # "None" THEN 1 ELSE 0)
    /\ UNCHANGED <<ctx, opened, requests, lastOp, inflight>>
    /\ ClientFrame
    /\ UNCHANGED guardVars

\* aclose() is resumed with `closing`: __aexit__ returns, or raises the
\* CancelledError thrown into it, and the block is left.
ExitResume(closing) ==
    /\ ctx = "open"
    /\ aexit = "aclose"
    /\ aexit' = IF closing.exc = "" THEN "returned" ELSE "cancelled"
    /\ ctx' = "exited"
    /\ UNCHANGED <<client, opened, closed, requests, lastOp, inflight>>
    /\ ClientFrame
    /\ UNCHANGED guardVars

\* No GET went out, so nothing came back.
NoGot == GetRaises("", "")

\* An operation is called on the object and runs to its first suspension:
\* it ends at once when it raises before the GET, and is in flight once
\* the GET went out.
OperateStartCall(op, planet_index) ==
    /\ ctx \in {"new", "open", "exited"}
    /\ LET r == OperationStart(client, op, planet_index)
       IN  /\ Len(requests) + Len(r.sent) <= MaxRequests
           /\ requests' = requests \o r.sent
           /\ IF r.outcome # <<>>
              THEN /\ lastOp' = [op |-> op, planet_index |-> planet_index,
                                 ctx |-> ctx, aexit |-> aexit, got |-> NoGot,
                                 outcome |-> r.outcome, handled |-> FALSE,
                                 sent |-> 0]
                   /\ UNCHANGED inflight
              ELSE /\ inflight' = Append(inflight,
                                         [op |-> op, planet_index |-> planet_index,
                                          ctx |-> ctx, aexit |-> aexit])
                   /\ UNCHANGED lastOp
    /\ UNCHANGED <<ctx, aexit, client, opened, closed>>
    /\ ClientFrame

OperateStart(op, planet_index) ==
    /\ OperateStartCall(op, planet_index)
    /\ UNCHANGED guardVars

\* The GET of the i-th operation in flight finishes with `got`, and the
\* operation runs to its end.
OperateResume(i, got) ==
    /\ i \in 1..Len(inflight)
    /\ LET f == inflight[i]
           r == OperationResume(got)
       IN  lastOp' = [op |-> f.op, planet_index |-> f.planet_index, ctx |-> f.ctx,
                      aexit |-> f.aexit, got |-> got, outcome |-> <<r.outcome>>,
                      handled |-> r.handled, sent |-> 1]
    /\ inflight' = [j \in 1..(Len(inflight) - 1) |->
                       IF j < i THEN inflight[j] ELSE inflight[j + 1]]
    /\ UNCHANGED <<ctx, aexit, client, opened, closed, requests>>
    /\ ClientFrame
    /\ UNCHANGED guardVars

\* What the GET of an operation called on the client is answered with.
ClientOutcomes ==
    {HttpResponse(200, ReasonPhrase(200), [valid |-> TRUE, value |-> PyDict]),
     HttpResponse(200, ReasonPhrase(200), [valid |-> FALSE, value |-> PyNone]),
     HttpResponse(404, ReasonPhrase(404), [valid |-> TRUE, value |-> PyDict]),
     HttpResponse(429, ReasonPhrase(429), [valid |-> TRUE, value |-> PyDict]),
     HttpResponse(503, ReasonPhrase(503), [valid |-> FALSE, value |-> PyNone]),
     GetRaises("ConnectError", "All connection attempts failed"),
     GetRaises("ReadTimeout", ""),
     GetRaises("CancelledError", "")}

NextClient ==
    \/ Construct
    \/ Enter
    \/ ExitStart
    \/ \E closing \in CloseOutcomes : ExitResume(closing)
    \/ \E op \in Operations \ {"get_planet_status"} : OperateStart(op, PyNone)
    \/ OperateStart("get_planet_status", PyInt)
    \/ \E i \in 1..MaxRequests, got \in ClientOutcomes : OperateResume(i, got)

SpecClient == InitClient /\ [][NextClient]_vars

(***************************************************************************)
(* Properties of HighCommandAPIClient (checked under SpecClient).          *)
(***************************************************************************)
\* The last operation failed with the adapter's own not-initialized error.
FailedNotInitialized ==
    /\ lastOp.outcome # <<>>
    /\ lastOp.outcome[1].kind = "raised"
    /\ lastOp.outcome[1].exc = "RuntimeError"
    /\ Contains(lastOp.outcome[1].msg, "Client not initialized")

\* C16: an operation called on a client whose context was never entered
\* fails with the 'Client not initialized' error, sends no request and
\* calls no response handling; while the context has never been entered no
\* httpx client exists and nothing has been sent.
C16_NeverEnteredFails ==
    /\ lastOp.ctx = "new" =>
          /\ FailedNotInitialized
          /\ lastOp.sent = 0
          /\ ~lastOp.handled
    /\ ctx = "new" =>
          /\ opened = 0
          /\ requests = <<>>
          /\ client._client = "None"

C16_Witness ==
    /\ ctx = "new"
    /\ lastOp.ctx = "new"
    /\ lastOp.op = "get_planet_status"
    /\ FailedNotInitialized

\* C17: the connection is Closed at construction, Open after scoped entry
\* and Closed again after scoped exit, whether the body returned or raised;
\* an operation is served only in Open, and one called before entry or
\* after exit fails with the not-initialized error and sends nothing.
\* (While __aexit__ is suspended in aclose() the context is between Open
\* and Closed, and the claim says nothing of an operation called there.)
C17_ConnectionStateMachine ==
    /\ ctx = "new" => ~ClientReady(client)
    /\ (ctx = "open" /\ aexit # "aclose") =>
          ClientReady(client) /\ ~client.is_closed
    /\ ctx = "exited" => client.is_closed /\ closed = opened
    /\ (lastOp.ctx = "open" /\ lastOp.aexit # "aclose") => lastOp.sent = 1
    /\ lastOp.ctx \in {"new", "exited"} =>
          /\ FailedNotInitialized
          /\ lastOp.sent = 0

\* The GET of the last operation failed at the network level.
TransportFailure ==
    /\ lastOp.ctx = "open"
    /\ lastOp.got.kind = "raise"
    /\ lastOp.got.exc \in {"ConnectError", "ReadTimeout"}

\* C20: inside an open context, a network-level failure of the GET leaves
\* the operation as the transport error the GET raised (an httpx.HTTPError),
\* of a class no HTTP error status is reported with, and _handle_response
\* is not called.
C20_TransportErrorPassesThrough ==
    TransportFailure =>
        LET o == lastOp.outcome[1]
        IN  /\ o = Raised(lastOp.got.exc, lastOp.got.msg)
            /\ "HTTPError" \in ExcBases(o.exc)
            /\ \A sc \in StatusCodes, b \in Bodies :
                  HandleResponse(HttpResponse(sc, ReasonPhrase(sc), b)).exc # o.exc
            /\ ~lastOp.handled

C20_Witness ==
    /\ TransportFailure
    /\ lastOp.op = "get_campaign_info"
    /\ lastOp.outcome = <<Raised("ConnectError", "All connection attempts failed")>>
    /\ lastOp.sent = 1

(***************************************************************************)
(* _handle_response on drawn responses.                                    *)
(***************************************************************************)
\* The status codes classified: every code from 100 to MaxStatus.
ClassifyCodes == 100..MaxStatus
\* The reason phrase is whatever the remote sent: a phrase or none.
ClassifyResponses ==
    {HttpResponse(sc, reason, b) :
        sc \in ClassifyCodes, reason \in {"", "Reason"}, b \in Bodies}

InitClassify ==
    /\ hresponse \in ClassifyResponses
    /\ hresult = <<>>
    /\ RegistryIdle
    /\ ValidateIdle
    /\ WrapperIdle
    /\ ServerIdle
    /\ ClientIdle
    /\ GuardIdle
    /\ TaskIdle

\* self._handle_response(response, endpoint) is called.
Classify ==
    /\ hresult = <<>>
    /\ hresult' = <<HandleResponse(hresponse)>>
    /\ UNCHANGED hresponse
    /\ UNCHANGED <<validateVars, registryVars, wrapperVars, serverVars, clientVars,
                   guardVars, taskVars>>

NextClassify == Classify

SpecClassify == InitClassify /\ [][NextClassify]_vars

(***************************************************************************)
(* Properties of _handle_response (checked under SpecClassify).            *)
(***************************************************************************)
\* The categories an outcome of _handle_response falls in.
CategoriesOf(o) ==
    {c \in {"body", "rate", "server", "client", "http"} :
        \/ c = "body" /\ o.exc # "RuntimeError"
        \/ c = "rate" /\ o.exc = "RuntimeError" /\ o.msg = "Rate limit exceeded"
        \/ c = "server" /\ o.exc = "RuntimeError" /\ StartsWith(o.msg, "Server error")
        \/ c = "client" /\ o.exc = "RuntimeError" /\ StartsWith(o.msg, "Client error")
        \/ c = "http" /\ o.exc = "RuntimeError" /\ StartsWith(o.msg, "HTTP error")}

\* The category the status code calls for.
CategoryFor(status_code) ==
    IF 200 <= status_code /\ status_code <= 299 THEN "body"
    ELSE IF status_code = 429 THEN "rate"
    ELSE IF 500 <= status_code /\ status_code <= 599 THEN "server"
    ELSE IF 400 <= status_code /\ status_code <= 499 THEN "client"
    ELSE "http"

\* C19: _handle_response puts every status code in exactly one category:
\* 2xx gives the parsed body, 429 the failure 'Rate limit exceeded', 500-599
\* the failure 'Server error (<status>): <reason>', 400-499 other than 429
\* the failure 'Client error (<status>): <reason>', and every other status
\* the failure 'HTTP error (<status>): <reason>'.
C19_ClassificationTotalExclusive ==
    hresult # <<>> =>
        LET o == hresult[1]
            sc == hresponse.status_code
            tail == " (" \o ToString(sc) \o "): " \o hresponse.reason_phrase
        IN  /\ CategoriesOf(o) = {CategoryFor(sc)}
            /\ CategoryFor(sc) = "body" /\ hresponse.body.valid =>
                   o = Returned(hresponse.body.value)
            /\ CategoryFor(sc) = "server" => o.msg = "Server error" \o tail
            /\ CategoryFor(sc) = "client" => o.msg = "Client error" \o tail
            /\ CategoryFor(sc) = "http" => o.msg = "HTTP error" \o tail
            /\ CategoryFor(sc) # "body" => o.kind = "raised"

C19_Witness ==
    /\ hresult # <<>>
    /\ hresponse.status_code = 429
    /\ hresult[1] = Raised("RuntimeError", "Rate limit exceeded")

(***************************************************************************)
(* The client of a tool invocation is released (checked under SpecWrapper).*)
(***************************************************************************)
\* The caller invoked one of the seven tool methods.
ToolInvocation == entry \in {op \o "_tool" : op \in Operations}

\* C18: in an invocation of any of the seven tool methods, the httpx client
\* that was opened is closed exactly once by the time the invocation ends,
\* whether the fetch returned a value, failed on an HTTP status or failed
\* in transport: it is open while the GET is pending, closed once while
\* the invocation waits in aclose(), before any envelope exists, and no
\* invocation ends with its client open.
C18_ReleasedOnEveryPath ==
    ToolInvocation =>
        /\ opened <= 1
        /\ (pc = "awaiting" /\ suspended_in = "get") =>
              opened = 1 /\ closed = 0 /\ ~client.is_closed
        /\ (pc = "awaiting" /\ suspended_in = "aclose") =>
              opened = 1 /\ closed = 1 /\ client.is_closed /\ response = <<>>
        /\ pc \in {"done", "raised"} =>
              /\ closed = opened
              /\ opened = 1 => client.is_closed

C18_Witness ==
    /\ ToolInvocation
    /\ pc = "done"
    /\ opened = 1
    /\ closed = 1
    /\ client.is_closed
    /\ outcome = <<Raised("ReadTimeout", "")>>

(***************************************************************************)
(* HTTP status failures as the caller of an operation sees them (checked   *)
(* under SpecClient).                                                      *)
(***************************************************************************)
\* The GET of the last operation came back with a status outside 2xx.
StatusFailure ==
    /\ lastOp.ctx = "open"
    /\ lastOp.got.kind = "response"
    /\ ~(200 <= lastOp.got.status_code /\ lastOp.got.status_code <= 299)

\* C21: inside an open context, when the status check of the response
\* raises an HTTP status error (a 404, say), get_war_status raises
\* httpx.HTTPStatusError to its caller.
C21_StatusErrorReachesCaller ==
    (StatusFailure /\ lastOp.op = "get_war_status") =>
        /\ lastOp.outcome[1].kind = "raised"
        /\ "HTTPStatusError" \in ExcBases(lastOp.outcome[1].exc)

(***************************************************************************)
(* The campaign-info tool (checked under SpecWrapper).                     *)
(***************************************************************************)
CampaignInvocation == entry = "get_campaign_info_tool"

\* C22 as stated: get_campaign_info never issues a GET and the
\* get_campaign_info tool always yields an error envelope.
C22_CampaignNeverCalls ==
    CampaignInvocation =>
        /\ requests = <<>>
        /\ pc = "done" => response[1].status = "error"

\* C22: the campaign-info operation has no fixed failure: once its client
\* is constructed it issues exactly one GET, to /api/campaigns/active, and
\* the tool's envelope follows what came back, a success carrying the
\* parsed body for a 2xx answer and an error naming the failure otherwise;
\* no GET goes out only when constructing the client failed.
C22_CampaignFetchesLikeOthers ==
    CampaignInvocation =>
        /\ opened = 1 => requests = <<"/api/campaigns/active">>
        /\ opened = 0 =>
              /\ requests = <<>>
              /\ pc = "done"
              /\ outcome[1].exc = "ValueError"
        /\ pc = "done" =>
              IF outcome[1].kind = "returned"
              THEN /\ response[1].status = "success"
                   /\ response[1].data = outcome[1].value
              ELSE /\ response[1].status = "error"
                   /\ response[1].error =
                          PyString(outcome[1].exc \o ": " \o outcome[1].msg)
                   /\ ~Contains(response[1].error.repr, "not available")

C22_Witness ==
    /\ CampaignInvocation
    /\ pc = "done"
    /\ requests = <<"/api/campaigns/active">>
    /\ response[1].status = "success"
    /\ response[1].data = PyDict

(***************************************************************************)
(* ToolDefinition.to_input_schema (tool_registry.py).                      *)
(***************************************************************************)
\* d[k] = v on a dict.
DictSet(d, k, v) == [x \in DOMAIN d \cup {k} |-> IF x = k THEN v ELSE d[x]]

RECURSIVE SchemaFrom(_, _, _, _)
\* The loop `for param in self.parameters` of to_input_schema from index i
\* on, with the properties and required_params built so far.
SchemaFrom(parameters, i, properties, required_params) ==
    IF i > Len(parameters)
    THEN [type |-> "object", properties |-> properties, required |-> required_params]
    ELSE LET param == parameters[i]
         IN  SchemaFrom(parameters, i + 1,
                        DictSet(properties, param.name,
                                [type |-> param.type, description |-> param.description]),
                        IF param.required
                        THEN Append(required_params, param.name)
                        ELSE required_params)

\* A view that lists every parameter as required.
ToInputSchemaAllRequired(tool) ==
    LET schema == SchemaFrom(tool.parameters, 1, <<>>, <<>>)
    IN  [schema EXCEPT !.required =
             [i \in 1..Len(tool.parameters) |-> tool.parameters[i].name]]

\* ToolDefinition.to_input_schema()
ToInputSchema(tool) == SchemaFrom(tool.parameters, 1, <<>>, <<>>)

\* The definitions to_input_schema is applied to: parameter lists of at
\* most MaxParams parameters, with two descriptions to tell entries apart.
SchemaParameter ==
    [name : ParamNames, type : ParamTypes,
     description : {"The index of the planet", "Maximum number of results"},
     required : BOOLEAN]
SchemaTools ==
    [name : {"get_planet_status"}, description : {"Get status for a specific planet"},
     handler : {"h1"}, parameters : SeqsUpTo(SchemaParameter, MaxParams)]

InitSchema ==
    /\ vtool \in SchemaTools
    /\ varguments = <<>>
    /\ vresult = <<>>
    /\ schemas = <<>>
    /\ RegistryIdle
    /\ WrapperIdle
    /\ FrontIdle

\* tool.to_input_schema() is called; it assigns to no field of the tool.
ToInputSchemaCall ==
    /\ Len(schemas) < MaxSchemaCalls
    /\ schemas' = Append(schemas, ToInputSchema(vtool))
    /\ UNCHANGED <<vtool, varguments, vresult>>
    /\ UNCHANGED <<registryVars, wrapperVars, frontVars>>

NextSchema == ToInputSchemaCall

SpecSchema == InitSchema /\ [][NextSchema]_vars

(***************************************************************************)
(* Properties of to_input_schema (checked under SpecSchema).               *)
(***************************************************************************)
\* The names of the parameters declared required, in declaration order.
RequiredNames(tool) ==
    LET req == SelectSeq(tool.parameters, LAMBDA p : p.required)
    IN  [i \in 1..Len(req) |-> req[i].name]

\* The last parameter of the list declared under name n.
LastDeclared(tool, n) ==
    LET last == CHOOSE i \in 1..Len(tool.parameters) :
                    /\ tool.parameters[i].name = n
                    /\ \A j \in (i + 1)..Len(tool.parameters) : tool.parameters[j].name # n
    IN  tool.parameters[last]

\* schema is the view of tool the claim describes.
IsSchemaOf(schema, tool) ==
    /\ DOMAIN schema = {"type", "properties", "required"}
    /\ schema.type = "object"
    /\ DOMAIN schema.properties = DeclaredNames(tool)
    /\ \A n \in DeclaredNames(tool) :
          schema.properties[n] =
              [type |-> LastDeclared(tool, n).type,
               description |-> LastDeclared(tool, n).description]
    /\ schema.required = RequiredNames(tool)

\* C23: every call of to_input_schema returns {type: "object", properties,
\* required} with one properties entry per declared parameter name carrying
\* the type and description declared for it, and required listing the names
\* of the parameters declared required, in declaration order; two calls on
\* one definition return equal results, and no call changes the definition.
C23_SchemaIsDerivedView ==
    /\ [](/\ \A i \in 1..Len(schemas) : IsSchemaOf(schemas[i], vtool)
          /\ \A i, j \in 1..Len(schemas) : schemas[i] = schemas[j])
    /\ [][vtool' = vtool]_vars

C23_Witness ==
    /\ Len(schemas) = 2
    /\ Len(vtool.parameters) = 2
    /\ vtool.parameters[1].name = "limit" /\ ~vtool.parameters[1].required
    /\ vtool.parameters[2].name = "planet_index" /\ vtool.parameters[2].required
    /\ schemas[2].required = <<"planet_index">>

(***************************************************************************)
(* Listing and clearing the registry (checked under SpecRegistry).         *)
(***************************************************************************)
\* The tools registered with success since construction or the last
\* clear(): per name, the definition of the first register() call.
RegisteredSinceClear == {firstAttempt[n] : n \in DOMAIN firstAttempt}

\* C24: after any sequence of register and clear calls, list_all() returns
\* the tools registered with success since the last clear (or since
\* construction), each once; right after clear() list_all() is empty and
\* get(n) is absent for every n, and a name that is not registered since
\* the clear is registered again without a duplicate failure.
C24_ListAllAfterRegisterAndClear ==
    /\ [](ret.op = "list_all" =>
            /\ {ret.value[i] : i \in 1..Len(ret.value)} = RegisteredSinceClear
            /\ Len(ret.value) = Cardinality(RegisteredSinceClear)
            /\ \A i, j \in 1..Len(ret.value) :
                  ret.value[i].name = ret.value[j].name => i = j)
    /\ [][ /\ (ret.op = "clear" /\ ret'.op = "list_all") => ret'.value = <<>>
           /\ (ret.op = "clear" /\ ret'.op = "get") => ret'.value = <<>>
           /\ (ret'.op = "register" /\ ret'.name \notin DOMAIN firstAttempt) =>
                  /\ ret'.exc = ""
                  /\ RegistryGet(tools', ret'.name) = ret'.tool ]_vars

C24_Witness ==
    /\ ret.op = "list_all"
    /\ Len(ret.value) = 2
    /\ ret.value[1].name = "get_planet_status"
    /\ ret.value[2].name = "get_planets"


(***************************************************************************)
(* Retries and cancellation (checked under SpecWrapper).                   *)
(***************************************************************************)
\* The fetch of the invocation ended in an exception `except Exception`
\* catches: a failed attempt.
FailedAttempt ==
    /\ outcome # <<>>
    /\ outcome[1].kind = "raised"
    /\ ExceptExceptionCatches(outcome[1].exc)

\* C25: no retries: an invocation of a tool method calls its fetch handler
\* exactly once, opens at most one connection and issues at most one GET;
\* after a failed attempt the invocation is over, with no request beyond
\* the one that failed, and the failure is the error of its envelope.
C25_NoRetries ==
    ToolInvocation =>
        /\ calls = 1
        /\ opened <= 1
        /\ Len(requests) <= opened
        /\ FailedAttempt =>
              /\ pc = "done"
              /\ response # <<>>
              /\ response[1].status = "error"
              /\ response[1].data = PyNone
              /\ response[1].error =
                     PyString(outcome[1].exc \o ": " \o outcome[1].msg)

\* C25's case: the one GET of an invocation was answered 503 and the
\* invocation ended with that failure in its envelope.
C25_Witness ==
    /\ ToolInvocation
    /\ FailedAttempt
    /\ calls = 1
    /\ opened = 1
    /\ Len(requests) = 1
    /\ Contains(outcome[1].msg, "503")
    /\ response[1].status = "error"

\* The invocation was cancelled at one of its suspension points.
CancelledWhileSuspended ==
    /\ ToolInvocation
    /\ outcome # <<>>
    /\ outcome[1].kind = "raised"
    /\ outcome[1].exc = "CancelledError"

\* C28: an invocation cancelled while suspended on its GET, or in the
\* aclose() that follows the GET, stops there: it issues no request beyond
\* the one it was waiting for, the connection it opened is closed, and the
\* cancellation leaves _run_tool as CancelledError, with no envelope
\* returned.
C28_CancelledWhileSuspended ==
    CancelledWhileSuspended =>
        /\ pc = "raised"
        /\ propagated.exc = "CancelledError"
        /\ response = <<>>
        /\ Len(requests) = 1
        /\ calls = 1
        /\ opened = 1
        /\ closed = 1
        /\ client.is_closed

\* C28's case: get_planet_status_tool was cancelled during its GET.
C28_Witness ==
    /\ CancelledWhileSuspended
    /\ entry = "get_planet_status_tool"
    /\ pc = "raised"
    /\ suspended_in = "done"
    /\ requests # <<>>
    /\ client.is_closed


(***************************************************************************)
(* Order and scope of the checks of validate_arguments (SpecValidate).     *)
(***************************************************************************)
\* The positions of the declared parameters that are at fault: required
\* and absent, or present with a value of another kind.
FailingPositions(tool, arguments) ==
    {i \in 1..Len(tool.parameters) :
        \/ MissingIn(tool.parameters[i], arguments)
        \/ MistypedIn(tool.parameters[i], arguments)}

Earliest(S) == CHOOSE i \in S : \A j \in S : i <= j

\* C27: validate_arguments reports the failure of the earliest declared
\* parameter that is required and absent or present with a value of the
\* wrong kind (a mistyped earlier parameter wins over a missing later one),
\* and succeeds when no parameter is at fault.
C27_EarliestFailureReported ==
    vresult # <<>> =>
        LET F == FailingPositions(vtool, varguments)
        IN  IF F = {} THEN vresult[1] = Returns
            ELSE LET p == vtool.parameters[Earliest(F)]
                 IN  /\ vresult[1].exc = "ValueError"
                     /\ IF MissingIn(p, varguments)
                        THEN vresult[1].msg = "Missing required parameter: " \o p.name
                        ELSE Contains(vresult[1].msg,
                                      "Parameter '" \o p.name \o "' must be " \o p.type)

\* Every declaration of the name is of a kind validate_arguments does not
\* check.
OtherKindOnly(tool, name) ==
    \A p \in ParamsOf(tool) : p.name = name => p.type \notin CheckedKinds

\* C30: a parameter declared with a kind other than integer, string or
\* boolean is never type-checked: the outcome of validate_arguments is the
\* same whatever value is supplied for it, and a tool whose parameters are
\* all of such a kind fails only with 'Missing required parameter', exactly
\* when a required parameter is absent.
C30_OtherKindsUnchecked ==
    vresult # <<>> =>
        /\ \A name \in DOMAIN varguments \cap DeclaredNames(vtool) :
               OtherKindOnly(vtool, name) =>
                   \A v \in ArgValues :
                       ValidateArguments(vtool, [varguments EXCEPT ![name] = v])
                           = vresult[1]
        /\ (\A p \in ParamsOf(vtool) : p.type \notin CheckedKinds) =>
               IF \E p \in ParamsOf(vtool) : MissingIn(p, varguments)
               THEN /\ vresult[1].exc = "ValueError"
                    /\ StartsWith(vresult[1].msg, "Missing required parameter: ")
               ELSE vresult[1] = Returns

\* C30's case: a parameter declared "number" was supplied a string next to
\* a correctly typed integer parameter, and the arguments were accepted.
C30_Witness ==
    /\ vresult # <<>>
    /\ vresult[1] = Returns
    /\ Len(vtool.parameters) = 2
    /\ vtool.parameters[1].type = "integer"
    /\ vtool.parameters[2].type = "number"
    /\ vtool.parameters[2].required
    /\ vtool.parameters[2].name # vtool.parameters[1].name
    /\ vtool.parameters[2].name \in DOMAIN varguments
    /\ varguments[vtool.parameters[2].name] = PyStr


(***************************************************************************)
(* The api_client module from its import on: the class attribute BASE_URL  *)
(* is read from the environment when the module is loaded, the production  *)
(* check reads the environment when a client is constructed, and           *)
(* __aenter__ builds the httpx client on BASE_URL.                         *)
(***************************************************************************)
DefaultBaseUrl == "http://localhost:5000"

\* The environments the module is loaded in and the process changes to.
GuardEnvirons ==
    [ENVIRONMENT : {<<>>, <<"production">>, <<"Production">>},
     HIGH_COMMAND_API_BASE_URL :
         {<<>>, <<"http://api.example.com">>, <<"https://api.example.com">>}]

\* What the GET of the guarded client is answered with.
GuardOutcomes ==
    {HttpResponse(200, ReasonPhrase(200), [valid |-> TRUE, value |-> PyDict]),
     GetRaises("ConnectError", "All connection attempts failed")}

\* `import highcommand.api_client`: the class body assigns BASE_URL.
InitGuard ==
    /\ environ \in GuardEnvirons
    /\ BASE_URL = GetEnv(environ, "HIGH_COMMAND_API_BASE_URL", DefaultBaseUrl)
    /\ built_env = <<>>
    /\ conn_urls = <<>>
    /\ sent_to = <<>>
    /\ entry = ""
    /\ pc = "idle"
    /\ suspended_in = ""
    /\ pending = <<>>
    /\ func = NoFunc
    /\ include_metrics = FALSE
    /\ clock = 0
    /\ start_time = 0
    /\ outcome = <<>>
    /\ response = <<>>
    /\ propagated = Returns
    /\ calls = 0
    /\ client = NoClient
    /\ opened = 0
    /\ closed = 0
    /\ requests = <<>>
    /\ ctx = "none"
    /\ lastOp = NoOp
    /\ aexit = ""
    /\ inflight = <<>>
    /\ RegistryIdle
    /\ ValidateIdle
    /\ ServerIdle
    /\ ClassifyIdle
    /\ TaskIdle

\* The process changes its environment after the module was loaded and
\* before the client is constructed (the code reads it at no later point).
SetEnv(e) ==
    /\ ctx = "none"
    /\ e # environ
    /\ environ' = e
    /\ UNCHANGED <<clientVars, guardVars, validateVars, registryVars, serverVars,
                   classifyVars, taskVars>>
    /\ UNCHANGED <<entry, pc, suspended_in, pending, func, include_metrics, clock,
                   start_time, outcome, response, propagated, calls, client, opened,
                   closed, requests>>

\* HighCommandAPIClient(): _validate_production_url reads os.environ now.
GuardConstruct ==
    /\ ConstructCall
    /\ built_env' = <<environ>>
    /\ UNCHANGED <<BASE_URL, conn_urls, sent_to>>

\* __aenter__: httpx.AsyncClient(base_url=self.BASE_URL, ...)
GuardEnter ==
    /\ EnterCall
    /\ conn_urls' = Append(conn_urls, BASE_URL)
    /\ UNCHANGED <<BASE_URL, built_env, sent_to>>

\* get_war_status() is called: the httpx client sends the GET to its
\* base_url joined with the endpoint.
GuardOperateStart(op) ==
    /\ OperateStartCall(op, PyNone)
    /\ sent_to' = IF Len(requests') > Len(requests)
                  THEN Append(sent_to, conn_urls[Len(conn_urls)])
                  ELSE sent_to
    /\ UNCHANGED <<BASE_URL, built_env, conn_urls>>

NextGuard ==
    \/ \E e \in GuardEnvirons : SetEnv(e)
    \/ GuardConstruct
    \/ GuardEnter
    \/ ExitStart
    \/ \E closing \in CloseOutcomes : ExitResume(closing)
    \/ GuardOperateStart("get_war_status")
    \/ \E i \in 1..MaxRequests, got \in GuardOutcomes : OperateResume(i, got)

SpecGuard == InitGuard /\ [][NextGuard]_vars

\* ENVIRONMENT was 'production', in any case, when the client was built.
BuiltInProduction ==
    /\ built_env # <<>>
    /\ Lower(GetEnv(built_env[1], "ENVIRONMENT", "development")) = "production"

\* C29: when ENVIRONMENT is 'production' (in any case) at the time the
\* client is constructed, construction fails with ValueError if the base
\* URL setting begins with http://, and no httpx client is opened on, and
\* no GET is sent to, a base URL beginning with http://, whatever the
\* base-URL setting was when the module was loaded.
C29_ProductionNeverHttp ==
    BuiltInProduction =>
        /\ StartsWith(GetEnv(built_env[1], "HIGH_COMMAND_API_BASE_URL", DefaultBaseUrl),
                      "http://")
              => ctx = "rejected" /\ opened = 0
        /\ \A i \in 1..Len(conn_urls) : ~StartsWith(conn_urls[i], "http://")
        /\ \A i \in 1..Len(sent_to) : ~StartsWith(sent_to[i], "http://")


(***************************************************************************)
(* Tool invocations interleaved at their suspension points: each task is   *)
(* one `await tools.get_*_tool(...)`, suspended on the GET of its _fetch.  *)
(***************************************************************************)
Tasks == {"a", "b"}
TaskOps == {"get_war_status", "get_planet_status", "get_campaign_info"}

\* What the GET of a task is answered with.
TaskOutcomes ==
    {HttpResponse(200, ReasonPhrase(200), [valid |-> TRUE, value |-> PyDict]),
     HttpResponse(200, ReasonPhrase(200), [valid |-> FALSE, value |-> PyNone]),
     HttpResponse(404, ReasonPhrase(404), [valid |-> TRUE, value |-> PyDict]),
     HttpResponse(429, ReasonPhrase(429), [valid |-> TRUE, value |-> PyDict]),
     HttpResponse(503, ReasonPhrase(503), [valid |-> FALSE, value |-> PyNone]),
     GetRaises("ConnectError", "All connection attempts failed"),
     GetRaises("ReadTimeout", ""),
     GetRaises("CancelledError", "")}

NoTask == [pc |-> "init", suspended_in |-> "", op |-> "", conn |-> 0, got |-> <<>>,
           pending |-> <<>>, outcome |-> <<>>, response |-> <<>>]

\* A _fetch that finds its client on the shared HighCommandTools object,
\* where the invocation that started last has put it.
TaskConnShared(tk, cs, t) == Len(cs)

\* The client a task works with: `client`, a local variable of its _fetch,
\* bound by `async with HighCommandAPIClient() as client`.
TaskConn(tk, cs, t) == tk[t].conn

InitTasks ==
    /\ environ \in Environs
    /\ entry = ""
    /\ pc = "idle"
    /\ suspended_in = ""
    /\ pending = <<>>
    /\ func = NoFunc
    /\ include_metrics = FALSE
    /\ clock = 0
    /\ start_time = 0
    /\ outcome = <<>>
    /\ response = <<>>
    /\ propagated = Returns
    /\ calls = 0
    /\ client = NoClient
    /\ opened = 0
    /\ closed = 0
    /\ requests = <<>>
    /\ task = [t \in Tasks |-> NoTask]
    /\ conns = <<>>
    /\ RegistryIdle
    /\ ValidateIdle
    /\ ServerIdle
    /\ ClientIdle
    /\ ClassifyIdle
    /\ GuardIdle

TaskFrame ==
    UNCHANGED <<validateVars, registryVars, wrapperVars, serverVars, clientVars,
                classifyVars, guardVars>>

\* Task t calls a tool method, which runs to the GET of its _fetch (or to
\* its end, when the client cannot be constructed).
TaskStart(t, op) ==
    /\ task[t].pc = "init"
    /\ LET h == HandlerStart(FetchFunc(op, PyInt), environ)
       IN  IF h.outcome # <<>>
           THEN LET fin == Finish(h.outcome[1], FALSE, 0, 0)
                IN  /\ task' = [task EXCEPT ![t] =
                                   [pc |-> fin.pc, suspended_in |-> "done", op |-> op,
                                    conn |-> 0, got |-> <<>>, pending |-> <<>>,
                                    outcome |-> h.outcome, response |-> fin.response]]
                    /\ UNCHANGED conns
           ELSE /\ conns' = Append(conns, [owner |-> t, client |-> h.client,
                                           users |-> {t}, closers |-> <<>>,
                                           requests |-> h.requests])
                /\ task' = [task EXCEPT ![t] =
                               [pc |-> "awaiting", suspended_in |-> "get", op |-> op,
                                conn |-> Len(conns) + 1, got |-> <<>>,
                                pending |-> <<>>, outcome |-> <<>>,
                                response |-> <<>>]]
    /\ TaskFrame

\* The GET task t is suspended on finishes with `got`: its _fetch leaves
\* the `async with` block through __aexit__ and suspends in aclose(), the
\* client closed.  A GET on a client that was closed in the meantime fails.
TaskResume(t, got) ==
    /\ task[t].pc = "awaiting"
    /\ task[t].suspended_in = "get"
    /\ LET i == TaskConn(task, conns, t)
           c == conns[i].client
           h == HandlerResume(c, ClientGet(c, got))
           fin == Finish(h.outcome, FALSE, 0, 0)
       IN  /\ conns' = [conns EXCEPT
                           ![i].client = h.client,
                           ![i].users = @ \cup {t},
                           ![i].closers = IF h.closed > 0 THEN Append(@, t) ELSE @]
           /\ task' = [task EXCEPT ![t] =
                          IF h.closed > 0
                          THEN [@ EXCEPT !.suspended_in = "aclose", !.got = <<got>>,
                                         !.pending = <<h.outcome>>]
                          ELSE [@ EXCEPT !.pc = fin.pc, !.suspended_in = "done",
                                         !.got = <<got>>, !.outcome = <<h.outcome>>,
                                         !.response = fin.response]]
    /\ TaskFrame

\* The aclose() task t is suspended in is resumed with `closing`: its
\* _fetch ends and _run_tool builds the response.
TaskClose(t, closing) ==
    /\ task[t].pc = "awaiting"
    /\ task[t].suspended_in = "aclose"
    /\ LET o == HandlerAfterClose(task[t].pending[1], closing)
           fin == Finish(o, FALSE, 0, 0)
       IN  task' = [task EXCEPT ![t] =
                       [@ EXCEPT !.pc = fin.pc, !.suspended_in = "done",
                                 !.pending = <<>>, !.outcome = <<o>>,
                                 !.response = fin.response]]
    /\ UNCHANGED conns
    /\ TaskFrame

NextTasks ==
    \/ \E t \in Tasks, op \in TaskOps : TaskStart(t, op)
    \/ \E t \in Tasks, got \in TaskOutcomes : TaskResume(t, got)
    \/ \E t \in Tasks, closing \in CloseOutcomes : TaskClose(t, closing)

SpecTasks == InitTasks /\ [][NextTasks]_vars

\* The envelope that the remote outcome `got` of an invocation determines.
EnvelopeFor(got) ==
    IF /\ got.kind = "response"
       /\ got.status_code \in 200..299
       /\ got.body.valid
    THEN [status |-> "success", data |-> got.body.value, error |-> PyNone]
    ELSE LET o == IF got.kind = "raise" THEN Raised(got.exc, got.msg)
                  ELSE HandleResponse(got)
         IN  [status |-> "error", data |-> PyNone,
              error |-> PyString(o.exc \o ": " \o o.msg)]

\* C26: with interleaved invocations, every connection is sent on and
\* closed by the invocation that opened it only, at most once, and not
\* while its owner is suspended on the GET; the envelope of an invocation
\* is the one its own remote outcome determines, and once returned it is
\* never changed by a step (a failure, a close) of another invocation.
C26_InterleavedIsolation ==
    /\ [] /\ \A i \in 1..Len(conns) :
                /\ conns[i].users = {conns[i].owner}
                /\ conns[i].closers \in {<<>>, <<conns[i].owner>>}
          /\ \A t \in Tasks :
                /\ task[t].conn # 0 =>
                      /\ conns[task[t].conn].owner = t
                      /\ \A u \in Tasks \ {t} : task[u].conn # task[t].conn
                /\ (task[t].pc = "done" /\ task[t].got # <<>>) =>
                      task[t].response = <<EnvelopeFor(task[t].got[1])>>
                /\ (task[t].pc = "awaiting" /\ task[t].suspended_in = "get") =>
                      ~conns[task[t].conn].client.is_closed
    /\ [][\A t \in Tasks :
              task[t].pc \in {"done", "raised"} => task'[t] = task[t]]_vars

\* C26's case: task a was started while b was suspended on its GET, failed
\* on a 503 and closed its connection; b is still suspended, its own
\* connection open.
C26_Witness ==
    /\ task["b"].pc = "awaiting"
    /\ task["b"].suspended_in = "get"
    /\ task["a"].pc = "done"
    /\ task["a"].response[1].status = "error"
    /\ task["b"].conn = 1
    /\ task["a"].conn = 2
    /\ conns[2].client.is_closed
    /\ ~conns[1].client.is_closed

====
